---- MODULE Spec2Model ----
(***************************************************************************)
(* Node tree, pointer graph, reorder, fork and template operations of the  *)
(* project views (website/project/views/node.py).  The persisted store is  *)
(* the pair of collections Node and Pointer; a view works on an in-memory  *)
(* copy and the store changes only where the view calls save().            *)
(***************************************************************************)
EXTENDS Integers, Sequences, FiniteSets, TLC

VARIABLES Node, Pointer, PrivateLink, DISK_SAVING_MODE, inflight, last, budget

vars == <<Node, Pointer, PrivateLink, DISK_SAVING_MODE, inflight, last, budget>>

(* ------------------------------ bounds -------------------------------- *)
MaxInitNodes == 3
MaxNodes == 6
MaxFamily == 4
MaxPointers == 2
MaxBatch == 2
MaxMove == 1
MaxOps == 3
MaxDepth == 2
MaxLinks == 2

(* --------------------------- program constants ------------------------ *)
READ == 1
WRITE == 2
ADMIN == 3
NoPermission == 0
CREATOR_PERMISSIONS == ADMIN

None == 0
Users == {"u1", "u2"}

(* the persisted store as one value *)
Store == [Node |-> Node, Pointer |-> Pointer]

Load(coll, key) == IF key \in 1..Len(coll) THEN key ELSE None

SeqRange(s) == {s[i] : i \in 1..Len(s)}

(* sequences over S of length lo..hi *)
SeqsOf(S, lo, hi) == UNION {[1..n -> S] : n \in lo..hi}

(* ------------------------------ tree ---------------------------------- *)
RECURSIVE AncestorsUpTo(_, _, _)
AncestorsUpTo(N, n, d) ==
    IF d = 0 \/ N[n].parent_node = None THEN {}
    ELSE {N[n].parent_node} \cup AncestorsUpTo(N, N[n].parent_node, d - 1)

Ancestors(N, n) == AncestorsUpTo(N, n, Len(N))

TreeRelated(N, a, b) == a \in Ancestors(N, b) \/ b \in Ancestors(N, a)

(* ---------------------------- permissions ----------------------------- *)
effective_permission(N, user, n) ==
    IF N[n].contributors[user] # NoPermission THEN N[n].contributors[user]
    ELSE IF \E a \in Ancestors(N, n) : N[a].contributors[user] = ADMIN THEN ADMIN
    ELSE IF N[n].is_public THEN READ
    ELSE NoPermission

has_permission(N, user, n, level) == effective_permission(N, user, n) >= level

(* decorators of website.project.decorators, as the views apply them *)
must_be_valid_project(db, n) == ~db.Node[n].is_deleted

must_have_permission(db, auth, n, level) == has_permission(db.Node, auth, n, level)

must_not_be_registration(db, n) == ~db.Node[n].is_registration

(* raises when the storage-conservation setting is on *)
http_error_if_disk_saving_mode == DISK_SAVING_MODE

(* ------------------------------ titles -------------------------------- *)
(* a title longer than the bound of validate_title *)
LongTitle == "x..."

(* the titles a request body may carry: valid ones, an empty one, one with
   markup, a blank one and an over-long one *)
Titles == {"t", "x", "", "<b>x</b>", " ", LongTitle}

(* sanitize.strip_html on the strings above *)
strip_html(v) ==
    IF v = "<b>x</b>" THEN "x" ELSE IF v = "<b>y</b>" THEN "y" ELSE v

(* str.strip on the strings above *)
strip(v) == IF v = " " THEN "" ELSE v

(* validate_title(value): not empty after trimming, not over-long *)
validate_title(v) == strip(v) # "" /\ v # LongTitle

(* the categories a request may name *)
Categories == {"project", "data"}

(* --------------------------- node creation ---------------------------- *)
NodeRecord(user, parent) ==
    [parent_node |-> parent, nodes |-> <<>>, is_deleted |-> FALSE,
     is_public |-> FALSE, is_registration |-> FALSE, is_fork |-> FALSE,
     archiving |-> FALSE, is_retracted |-> FALSE, title |-> "t",
     category |-> "project", description |-> "",
     creator |-> user,
     contributors |-> [u \in Users |-> IF u = user THEN CREATOR_PERMISSIONS
                                       ELSE NoPermission]]

(* new_node(category, title, user, description, parent): the title is
   validated; the new node gets the next key and is appended to its parent's
   ordered child list *)
new_node(N, category, title, user, description, parent) ==
    IF ~validate_title(title) THEN [N |-> N, err |-> "ValidationValueError"]
    ELSE LET key == Len(N) + 1
             rec == [NodeRecord(user, parent) EXCEPT !.title = strip(title),
                                                     !.category = category,
                                                     !.description = description]
             N1 == Append(N, rec)
         IN  [N |-> IF parent = None THEN N1
                    ELSE [N1 EXCEPT ![parent].nodes = Append(@, key)],
              err |-> "ok"]

(* ------------------------------ pointers ------------------------------ *)
ActivePointers(P, host) ==
    {i \in 1..Len(P) : P[i].host = host /\ ~P[i].is_deleted}

PointerTargets(P, host) == {P[i].target : i \in ActivePointers(P, host)}

(* Node.pointing_at(target key): the key of the node's active pointer to it *)
pointing_at(db, node, target) ==
    LET hits == {i \in ActivePointers(db.Pointer, node) : db.Pointer[i].target = target}
    IN  IF hits = {} THEN None ELSE CHOOSE i \in hits : \A j \in hits : i <= j

(* Node.add_pointer(node, auth, save=False) on the in-memory copy *)
node_add_pointer(mem, node, target) ==
    IF target = None THEN [mem |-> mem, err |-> "AttributeError"]
    ELSE IF \/ target = node
            \/ target \in PointerTargets(mem.Pointer, node)
            \/ TreeRelated(mem.Node, node, target)
    THEN [mem |-> mem, err |-> "ValueError"]
    ELSE [mem |-> [mem EXCEPT !.Pointer =
                      Append(@, [host |-> node, target |-> target, is_deleted |-> FALSE])],
          err |-> "ok"]

(* Node.rm_pointer(pointer, auth) on the in-memory copy *)
rm_pointer(mem, node, pointer) ==
    IF mem.Pointer[pointer].host # node \/ mem.Pointer[pointer].is_deleted
    THEN [mem |-> mem, err |-> "ValueError"]
    ELSE [mem |-> [mem EXCEPT !.Pointer[pointer].is_deleted = TRUE], err |-> "ok"]

(* the for loop of _add_pointers: every add is made with save=False *)
RECURSIVE AddLoop(_, _, _)
AddLoop(mem, node, pointers) ==
    IF pointers = <<>> THEN [mem |-> mem, err |-> "ok"]
    ELSE LET r == node_add_pointer(mem, node, Head(pointers))
         IN  IF r.err # "ok" THEN r
             ELSE AddLoop(r.mem, node, Tail(pointers))

(* variant: the node is saved after every add_pointer *)
_add_pointers_save_each(db, node, pointers) ==
    LET r == AddLoop(db, node, pointers)
    IN  [db |-> r.mem, err |-> r.err]

(* variant: the pointer records are appended without Node.add_pointer *)
_add_pointers_unchecked(db, node, pointers) ==
    [db |-> [db EXCEPT !.Pointer = @ \o
                [i \in 1..Len(pointers) |->
                    [host |-> node, target |-> pointers[i], is_deleted |-> FALSE]]],
     err |-> "ok"]

(* _add_pointers(node, pointers, auth): one save() after the loop; an
   exception inside the loop leaves the store as it was *)
_add_pointers(db, node, pointers) ==
    LET r == AddLoop(db, node, pointers)
    IN  IF r.err # "ok" THEN [db |-> db, err |-> r.err]
        ELSE [db |-> IF pointers # <<>> THEN r.mem ELSE db, err |-> "ok"]

(* variant: from_node is not saved after rm_pointer *)
MoveRemove_unsaved(db, from_node, pointer) ==
    [db |-> db, err |-> rm_pointer(db, from_node, pointer).err]

(* the first half of a move: from_node.rm_pointer(pointer), then
   from_node.save() *)
MoveRemove(db, from_node, pointer) ==
    LET rm == rm_pointer(db, from_node, pointer)
    IN  [db |-> IF rm.err = "ok" THEN rm.mem ELSE db, err |-> rm.err]

(* the for loop of move_pointers: the removal from from_node, then
   _add_pointers on to_node, for each id in turn *)
RECURSIVE MoveLoop(_, _, _, _)
MoveLoop(db, from_node, to_node, ids) ==
    IF ids = <<>> THEN [db |-> db, status |-> "OK"]
    ELSE LET pointer_id == pointing_at(db, from_node, Head(ids))
             pointer_node == Load(db.Node, Head(ids))
             pointer == Load(db.Pointer, pointer_id)
         IN  IF pointer = None THEN [db |-> db, status |-> "BAD_REQUEST"]
             ELSE LET rm == MoveRemove(db, from_node, pointer)
                  IN  IF rm.err # "ok" THEN [db |-> db, status |-> "BAD_REQUEST"]
                      ELSE LET saved == rm.db
                               add == _add_pointers(saved, to_node, <<pointer_node>>)
                           IN  IF add.err = "ValueError"
                               THEN [db |-> saved, status |-> "BAD_REQUEST"]
                               ELSE IF add.err # "ok"
                               THEN [db |-> saved, status |-> "ERROR"]
                               ELSE MoveLoop(add.db, from_node, to_node, Tail(ids))

(* move_pointers(auth): only @collect_auth decorates it *)
move_pointers(db, auth, from_node_id, to_node_id, pointers_to_move) ==
    LET from_node == Load(db.Node, from_node_id)
        to_node == Load(db.Node, to_node_id)
    IN  IF to_node = None \/ from_node = None
        THEN [db |-> db, status |-> "BAD_REQUEST"]
        ELSE MoveLoop(db, from_node, to_node, pointers_to_move)

(* variant: the pointer record is appended without Node.add_pointer *)
add_pointer_unchecked(db, auth, to_node_id, pointer_to_move) ==
    IF Load(db.Node, to_node_id) = None \/ Load(db.Node, pointer_to_move) = None
    THEN [db |-> db, status |-> "BAD_REQUEST"]
    ELSE [db |-> [db EXCEPT !.Pointer =
                     Append(@, [host |-> to_node_id, target |-> pointer_to_move,
                                is_deleted |-> FALSE])],
          status |-> "OK"]

(* add_pointer(auth): a single pointer from JSON ids; only @collect_auth *)
add_pointer(db, auth, to_node_id, pointer_to_move) ==
    IF to_node_id = None \/ pointer_to_move = None
    THEN [db |-> db, status |-> "BAD_REQUEST"]
    ELSE LET pointer == Load(db.Node, pointer_to_move)
             to_node == Load(db.Node, to_node_id)
         IN  IF to_node = None THEN [db |-> db, status |-> "ERROR"]
             ELSE LET r == _add_pointers(db, to_node, <<pointer>>)
                  IN  [db |-> r.db,
                       status |-> IF r.err = "ok" THEN "OK"
                                  ELSE IF r.err = "ValueError" THEN "BAD_REQUEST"
                                  ELSE "ERROR"]

(* add_pointers(auth, node): @must_have_permission(WRITE),
   @must_not_be_registration *)
add_pointers(db, auth, node, node_ids) ==
    IF ~must_have_permission(db, auth, node, WRITE)
    THEN [db |-> db, status |-> "FORBIDDEN"]
    ELSE IF ~must_not_be_registration(db, node) \/ node_ids = <<>>
    THEN [db |-> db, status |-> "BAD_REQUEST"]
    ELSE LET nodes == [i \in 1..Len(node_ids) |-> Load(db.Node, node_ids[i])]
             r == _add_pointers(db, node, nodes)
         IN  [db |-> r.db,
              status |-> IF r.err = "ok" THEN "OK"
                         ELSE IF r.err = "ValueError" THEN "BAD_REQUEST"
                         ELSE "ERROR"]

(* remove_pointer(auth, node): the pointer is named by its own key *)
remove_pointer(db, auth, node, pointer_id) ==
    IF ~must_have_permission(db, auth, node, WRITE)
    THEN [db |-> db, status |-> "FORBIDDEN"]
    ELSE IF ~must_not_be_registration(db, node) \/ pointer_id = None
    THEN [db |-> db, status |-> "BAD_REQUEST"]
    ELSE LET pointer == Load(db.Pointer, pointer_id)
         IN  IF pointer = None THEN [db |-> db, status |-> "BAD_REQUEST"]
             ELSE LET r == rm_pointer(db, node, pointer)
                  IN  IF r.err # "ok" THEN [db |-> db, status |-> "BAD_REQUEST"]
                      ELSE [db |-> r.mem, status |-> "OK"]

(* remove_pointer_from_folder(auth, node, pointer_id): the pointer is named
   by the key of the node it points at *)
remove_pointer_from_folder(db, auth, node, target_id) ==
    IF ~must_be_valid_project(db, node)
    THEN [db |-> db, status |-> "GONE"]
    ELSE IF ~must_have_permission(db, auth, node, WRITE)
    THEN [db |-> db, status |-> "FORBIDDEN"]
    ELSE IF ~must_not_be_registration(db, node) \/ target_id = None
    THEN [db |-> db, status |-> "BAD_REQUEST"]
    ELSE LET pointer == Load(db.Pointer, pointing_at(db, node, target_id))
         IN  IF pointer = None THEN [db |-> db, status |-> "BAD_REQUEST"]
             ELSE LET r == rm_pointer(db, node, pointer)
                  IN  IF r.err # "ok" THEN [db |-> db, status |-> "BAD_REQUEST"]
                      ELSE [db |-> r.mem, status |-> "OK"]

(* ------------------------------ children ------------------------------ *)
active_children(N, n) == SelectSeq(N[n].nodes, LAMBDA c : ~N[c].is_deleted)

deleted_children(N, n) == SelectSeq(N[n].nodes, LAMBDA c : N[c].is_deleted)

(* StoredObject.get_collection(schema).load(key): the object, or NoObject *)
NoObject == [schema |-> "none", key |-> None]

LoadObject(db, key, schema) ==
    IF schema = "node" /\ key \in 1..Len(db.Node) THEN [schema |-> "node", key |-> key]
    ELSE IF schema = "pointer" /\ key \in 1..Len(db.Pointer)
    THEN [schema |-> "pointer", key |-> key]
    ELSE NoObject

NodeObjects(keys) == [i \in 1..Len(keys) |-> [schema |-> "node", key |-> keys[i]]]

ObjectKeys(objs) == [i \in 1..Len(objs) |-> objs[i].key]

(* variant: only the lengths are compared *)
ReorderAccepts_length_only(valid_nodes, nodes_new) ==
    Len(valid_nodes) = Len(nodes_new)

(* variant: only the sets are compared *)
ReorderAccepts_set_only(valid_nodes, nodes_new) ==
    SeqRange(valid_nodes) = SeqRange(nodes_new)

(* variant: the stored order of the active children is kept *)
ReorderedNodes_old_order(nodes_new, valid_nodes, deleted_nodes) ==
    valid_nodes \o deleted_nodes

(* variant: the deleted children are left out *)
ReorderedNodes_drop_deleted(nodes_new, valid_nodes, deleted_nodes) == nodes_new

(* the acceptance test of a reorder: as many objects as active children,
   and the same set of objects *)
ReorderAccepts(valid_nodes, nodes_new) ==
    Len(valid_nodes) = Len(nodes_new) /\ SeqRange(valid_nodes) = SeqRange(nodes_new)

(* the child list an accepted reorder stores, from the lists in scope *)
ReorderedNodes(nodes_new, valid_nodes, deleted_nodes) == nodes_new \o deleted_nodes

(* project_reorder_components(node): @must_be_valid_project,
   @must_not_be_registration, @must_have_permission(WRITE) *)
project_reorder_components(db, auth, node, new_list) ==
    IF ~must_be_valid_project(db, node)
    THEN [db |-> db, status |-> "GONE"]
    ELSE IF ~must_not_be_registration(db, node)
    THEN [db |-> db, status |-> "BAD_REQUEST"]
    ELSE IF ~must_have_permission(db, auth, node, WRITE)
    THEN [db |-> db, status |-> "FORBIDDEN"]
    ELSE LET nodes_new == [i \in 1..Len(new_list) |->
                              LoadObject(db, new_list[i].key, new_list[i].schema)]
             valid_nodes == NodeObjects(active_children(db.Node, node))
             deleted_nodes == NodeObjects(deleted_children(db.Node, node))
         IN  IF ReorderAccepts(valid_nodes, nodes_new)
             THEN [db |-> [db EXCEPT !.Node[node].nodes =
                                  ObjectKeys(ReorderedNodes(nodes_new, valid_nodes, deleted_nodes))],
                   status |-> "OK"]
             ELSE [db |-> db, status |-> "BAD_REQUEST"]

(* ------------------------------ creation ------------------------------ *)
(* variant: the new component comes first among the children of its parent
   and is as public as the parent *)
project_new_node_first(db, auth, node, form) ==
    IF ~must_be_valid_project(db, node)
    THEN [db |-> db, status |-> "GONE"]
    ELSE IF ~must_have_permission(db, auth, node, WRITE)
    THEN [db |-> db, status |-> "FORBIDDEN"]
    ELSE IF form.title = "" \/ form.title = LongTitle
    THEN [db |-> db, status |-> "BAD_REQUEST"]
    ELSE LET r == new_node(db.Node, form.category, strip_html(form.title), auth,
                           "", node)
             key == Len(r.N)
         IN  IF r.err # "ok" THEN [db |-> db, status |-> "BAD_REQUEST"]
             ELSE [db |-> [db EXCEPT !.Node =
                             [r.N EXCEPT ![node].nodes = <<key>> \o db.Node[node].nodes,
                                         ![key].is_public = db.Node[node].is_public]],
                   status |-> "CREATED"]

(* variant: the parent of the new component becomes its child as well *)
project_new_node_adopting(db, auth, node, form) ==
    IF ~must_be_valid_project(db, node)
    THEN [db |-> db, status |-> "GONE"]
    ELSE IF ~must_have_permission(db, auth, node, WRITE)
    THEN [db |-> db, status |-> "FORBIDDEN"]
    ELSE IF form.title = "" \/ form.title = LongTitle
    THEN [db |-> db, status |-> "BAD_REQUEST"]
    ELSE LET r == new_node(db.Node, form.category, strip_html(form.title), auth,
                           "", node)
             key == Len(r.N)
         IN  IF r.err # "ok" THEN [db |-> db, status |-> "BAD_REQUEST"]
             ELSE [db |-> [db EXCEPT !.Node =
                             [r.N EXCEPT ![node].parent_node = key,
                                         ![key].nodes = <<node>>]],
                   status |-> "CREATED"]

(* variant: with the option every user, the actor too, has on the component
   the level they have on the parent *)
project_new_node_inherit_plain(db, auth, node, form) ==
    IF ~must_be_valid_project(db, node)
    THEN [db |-> db, status |-> "GONE"]
    ELSE IF ~must_have_permission(db, auth, node, WRITE)
    THEN [db |-> db, status |-> "FORBIDDEN"]
    ELSE IF form.title = "" \/ form.title = LongTitle
    THEN [db |-> db, status |-> "BAD_REQUEST"]
    ELSE LET r == new_node(db.Node, form.category, strip_html(form.title), auth,
                           "", node)
             key == Len(r.N)
         IN  IF r.err # "ok" THEN [db |-> db, status |-> "BAD_REQUEST"]
             ELSE [db |-> [db EXCEPT !.Node =
                             IF form.inherit_contributors
                             THEN [r.N EXCEPT ![key].contributors =
                                                  db.Node[node].contributors]
                             ELSE r.N],
                   status |-> "CREATED"]

(* NewNodeForm(request.form).validate(): a title is required and bounded *)
NewNodeForm_validate(form) == form.title # "" /\ form.title # LongTitle

(* project_new_node(auth, node): a component under node; with the
   inherit_contributors option the parent's contributors are added *)
project_new_node(db, auth, node, form) ==
    IF ~must_be_valid_project(db, node)
    THEN [db |-> db, status |-> "GONE"]
    ELSE IF ~must_have_permission(db, auth, node, WRITE)
    THEN [db |-> db, status |-> "FORBIDDEN"]
    ELSE IF ~must_not_be_registration(db, node)
    THEN [db |-> db, status |-> "BAD_REQUEST"]
    ELSE IF ~NewNodeForm_validate(form)
    THEN [db |-> db, status |-> "BAD_REQUEST"]
    ELSE LET r == new_node(db.Node, form.category, strip_html(form.title), auth,
                           "", node)
             N1 == r.N
             key == Len(N1)
             inherited == [u \in Users |->
                             IF u = auth THEN CREATOR_PERMISSIONS
                             ELSE db.Node[node].contributors[u]]
             N2 == IF form.inherit_contributors
                      /\ has_permission(db.Node, auth, node, WRITE)
                   THEN [N1 EXCEPT ![key].contributors = inherited]
                   ELSE N1
         IN  IF r.err # "ok" THEN [db |-> db, status |-> "BAD_REQUEST"]
             ELSE [db |-> [db EXCEPT !.Node = N2], status |-> "CREATED"]

(* ------------------------------- update ------------------------------- *)
(* r_strip_html(data): strip_html on every value of the body *)
r_strip_html(data) == [i \in 1..Len(data) |-> [data[i] EXCEPT !.value = strip_html(@)]]

WRITABLE_WHITELIST == {"title", "description", "category"}

(* the fields a request body may name *)
Fields == WRITABLE_WHITELIST \cup {"is_public", "contributors", "nodes"}

(* Node.update(fields, auth): the fields in turn; a field outside the
   whitelist or an invalid title raises NodeUpdateError naming the field;
   changed collects the names of the fields whose value is new *)
SetField(rec, key, value) ==
    IF key = "title" THEN [rec EXCEPT !.title = value]
    ELSE IF key = "category" THEN [rec EXCEPT !.category = value]
    ELSE [rec EXCEPT !.description = value]

GetField(rec, key) ==
    IF key = "title" THEN rec.title
    ELSE IF key = "category" THEN rec.category
    ELSE rec.description

RECURSIVE node_update(_, _, _)
node_update(rec, data, changed) ==
    IF data = <<>> THEN [rec |-> rec, err |-> "ok", key |-> "", changed |-> changed]
    ELSE LET f == Head(data)
         IN  IF f.key \notin WRITABLE_WHITELIST
                \/ (f.key = "title" /\ ~validate_title(f.value))
             THEN [rec |-> rec, err |-> "NodeUpdateError", key |-> f.key,
                   changed |-> changed]
             ELSE IF f.value # GetField(rec, f.key)
             THEN node_update(SetField(rec, f.key, f.value), Tail(data),
                              changed \cup {f.key})
             ELSE node_update(rec, Tail(data), changed)

(* variant: the fields set before the failure are saved *)
update_node_partial(db, auth, node, json) ==
    IF ~must_be_valid_project(db, node)
    THEN [db |-> db, status |-> "GONE", key |-> "", updated_fields |-> {}]
    ELSE IF ~must_not_be_registration(db, node)
    THEN [db |-> db, status |-> "BAD_REQUEST", key |-> "", updated_fields |-> {}]
    ELSE IF ~must_have_permission(db, auth, node, WRITE)
    THEN [db |-> db, status |-> "FORBIDDEN", key |-> "", updated_fields |-> {}]
    ELSE LET data == r_strip_html(json)
             r == node_update(db.Node[node], data, {})
         IN  [db |-> [db EXCEPT !.Node[node] = r.rec],
              status |-> IF r.err # "ok" THEN "BAD_REQUEST" ELSE "OK",
              key |-> r.key,
              updated_fields |-> IF r.err # "ok" THEN {} ELSE r.changed]

(* update_node(auth, node): @must_be_valid_project,
   @must_not_be_registration, @must_have_permission(WRITE); the answer
   names the updated fields, or the field of the failure *)
update_node(db, auth, node, json) ==
    IF ~must_be_valid_project(db, node)
    THEN [db |-> db, status |-> "GONE", key |-> "", updated_fields |-> {}]
    ELSE IF ~must_not_be_registration(db, node)
    THEN [db |-> db, status |-> "BAD_REQUEST", key |-> "", updated_fields |-> {}]
    ELSE IF ~must_have_permission(db, auth, node, WRITE)
    THEN [db |-> db, status |-> "FORBIDDEN", key |-> "", updated_fields |-> {}]
    ELSE LET data == r_strip_html(json)
             r == node_update(db.Node[node], data, {})
         IN  IF r.err # "ok"
             THEN [db |-> db, status |-> "BAD_REQUEST", key |-> r.key,
                   updated_fields |-> {}]
             ELSE [db |-> [db EXCEPT !.Node[node] = r.rec], status |-> "OK",
                   key |-> "", updated_fields |-> r.changed]

(* ------------------------------ deletion ------------------------------ *)
(* Node.remove_node(auth): the active children first, in order, then the
   node itself; the first failure stops it and nothing is undone *)
RECURSIVE remove_node(_, _), RemoveChildren(_, _)
(* saves is the sequence of node collections that the saves of the
   recursion store, one for each node marked *)
remove_node(N, n) ==
    IF N[n].is_registration THEN [N |-> N, err |-> "NodeStateError", saves |-> <<>>]
    ELSE LET r == RemoveChildren(N, active_children(N, n))
         IN  IF r.err # "ok" THEN r
             ELSE LET N2 == [r.N EXCEPT ![n].is_deleted = TRUE]
                  IN  [N |-> N2, err |-> "ok", saves |-> Append(r.saves, N2)]

RemoveChildren(N, cs) ==
    IF cs = <<>> THEN [N |-> N, err |-> "ok", saves |-> <<>>]
    ELSE LET r == remove_node(N, Head(cs))
         IN  IF r.err # "ok" THEN r
             ELSE LET q == RemoveChildren(r.N, Tail(cs))
                  IN  [q EXCEPT !.saves = r.saves \o @]

(* Node.can_view(auth) *)
can_view(N, auth, n) == has_permission(N, auth, n, READ)

(* variant: the node is marked and its children are left alone *)
component_remove_shallow(db, auth, node) ==
    IF ~must_be_valid_project(db, node)
    THEN [db |-> db, status |-> "GONE", saves |-> <<>>, url |-> None]
    ELSE IF ~must_have_permission(db, auth, node, ADMIN)
    THEN [db |-> db, status |-> "FORBIDDEN", saves |-> <<>>, url |-> None]
    ELSE IF ~must_not_be_registration(db, node)
    THEN [db |-> db, status |-> "BAD_REQUEST", saves |-> <<>>, url |-> None]
    ELSE LET N2 == [db.Node EXCEPT ![node].is_deleted = TRUE]
             parent == N2[node].parent_node
         IN  [db |-> [db EXCEPT !.Node = N2], status |-> "OK", saves |-> <<N2>>,
              url |-> IF parent # None /\ can_view(N2, auth, parent)
                      THEN parent ELSE None]

(* variant: a NodeStateError of the recursion is passed over and the node
   is marked all the same *)
component_remove_forced(db, auth, node) ==
    IF ~must_be_valid_project(db, node)
    THEN [db |-> db, status |-> "GONE", saves |-> <<>>, url |-> None]
    ELSE IF ~must_have_permission(db, auth, node, ADMIN)
    THEN [db |-> db, status |-> "FORBIDDEN", saves |-> <<>>, url |-> None]
    ELSE LET r == remove_node(db.Node, node)
             N2 == [r.N EXCEPT ![node].is_deleted = TRUE]
             parent == N2[node].parent_node
         IN  [db |-> [db EXCEPT !.Node = N2], status |-> "OK",
              saves |-> IF r.err = "ok" THEN r.saves ELSE Append(r.saves, N2),
              url |-> IF parent # None /\ can_view(N2, auth, parent)
                      THEN parent ELSE None]

(* component_remove(auth, node): @must_be_valid_project,
   @must_have_permission(ADMIN), @must_not_be_registration *)
component_remove(db, auth, node) ==
    IF ~must_be_valid_project(db, node)
    THEN [db |-> db, status |-> "GONE", saves |-> <<>>, url |-> None]
    ELSE IF ~must_have_permission(db, auth, node, ADMIN)
    THEN [db |-> db, status |-> "FORBIDDEN", saves |-> <<>>, url |-> None]
    ELSE IF ~must_not_be_registration(db, node)
    THEN [db |-> db, status |-> "BAD_REQUEST", saves |-> <<>>, url |-> None]
    ELSE LET r == remove_node(db.Node, node)
             parent == r.N[node].parent_node
         IN  [db |-> [db EXCEPT !.Node = r.N],
              status |-> IF r.err = "ok" THEN "OK" ELSE "BAD_REQUEST",
              saves |-> r.saves,
              url |-> IF r.err = "ok" /\ parent # None /\ can_view(r.N, auth, parent)
                      THEN parent ELSE None]

(* ----------------------------- enumeration ---------------------------- *)
(* get_children(auth, node): @must_be_contributor_or_public; the children
   that are not deleted, and with a permissions argument those on which the
   user holds that permission *)
get_children(db, auth, node, perm) ==
    IF ~can_view(db.Node, auth, node)
    THEN [status |-> "FORBIDDEN", nodes |-> <<>>]
    ELSE [status |-> "OK",
          nodes |-> SelectSeq(db.Node[node].nodes,
                              LAMBDA each : /\ (perm # None =>
                                                   db.Node[each].contributors[auth] >= perm)
                                            /\ ~db.Node[each].is_deleted)]

(* ---------------------------- private links --------------------------- *)
(* new_private_link(name, user, nodes, anonymous): the name is stripped and
   must be a valid one; the link holds the nodes in the order given *)
new_private_link(links, name, user, nodes, anonymous) ==
    IF ~validate_title(strip_html(name))
    THEN [links |-> links, err |-> "ValidationValueError"]
    ELSE [links |-> Append(links, [name |-> strip_html(name), nodes |-> nodes,
                                   creator |-> user, anonymous |-> anonymous,
                                   is_deleted |-> FALSE]),
          err |-> "ok"]

(* project_generate_private_link_post(auth, node): @must_be_valid_project,
   @must_have_permission(ADMIN); the node of the URL is put in front of the
   ids of the body when it is not among them *)
project_generate_private_link_post(db, links, auth, node, node_ids, name, anonymous) ==
    IF ~must_be_valid_project(db, node)
    THEN [links |-> links, status |-> "GONE"]
    ELSE IF ~must_have_permission(db, auth, node, ADMIN)
    THEN [links |-> links, status |-> "FORBIDDEN"]
    ELSE LET ids == IF node \notin SeqRange(node_ids) THEN <<node>> \o node_ids
                    ELSE node_ids
             nodes == [i \in 1..Len(ids) |-> Load(db.Node, ids[i])]
             r == new_private_link(links, name, auth, nodes, anonymous)
         IN  [links |-> r.links,
              status |-> IF r.err = "ok" THEN "OK" ELSE "BAD_REQUEST"]

(* project_private_link_edit(auth): @must_be_valid_project,
   @must_have_permission(ADMIN) on the node of the URL; the link is loaded
   by the pk of the body *)
project_private_link_edit(db, links, auth, node, value, pk) ==
    IF ~must_be_valid_project(db, node)
    THEN [links |-> links, status |-> "GONE"]
    ELSE IF ~must_have_permission(db, auth, node, ADMIN)
    THEN [links |-> links, status |-> "FORBIDDEN"]
    ELSE IF ~validate_title(value)
    THEN [links |-> links, status |-> "BAD_REQUEST"]
    ELSE LET private_link == Load(links, pk)
         IN  IF private_link # None
             THEN [links |-> [links EXCEPT ![pk].name = strip_html(value)],
                   status |-> "OK"]
             ELSE [links |-> links, status |-> "BAD_REQUEST"]

(* ------------------------------ privacy ------------------------------- *)
(* Node.set_privacy(permissions, auth): a retracted or archiving node is not
   made public; the node keeps every other field and no other node is
   touched *)
set_privacy(rec, permissions) ==
    IF permissions = "public" /\ (rec.is_retracted \/ rec.archiving)
    THEN [rec |-> rec, err |-> "NodeStateError"]
    ELSE [rec |-> [rec EXCEPT !.is_public = (permissions = "public")], err |-> "ok"]

(* variant: the flag is written without Node.set_privacy *)
project_set_privacy_unchecked(db, auth, node, permissions) ==
    IF ~must_be_valid_project(db, node)
    THEN [db |-> db, status |-> "GONE"]
    ELSE IF ~must_have_permission(db, auth, node, ADMIN)
    THEN [db |-> db, status |-> "FORBIDDEN"]
    ELSE IF permissions = "none"
    THEN [db |-> db, status |-> "BAD_REQUEST"]
    ELSE [db |-> [db EXCEPT !.Node[node].is_public = (permissions = "public")],
          status |-> "OK"]

(* variant: the children of the node follow it *)
project_set_privacy_cascading(db, auth, node, permissions) ==
    LET r == project_set_privacy_unchecked(db, auth, node, permissions)
    IN  IF r.status # "OK" \/ db.Node[node].is_retracted \/ db.Node[node].archiving
        THEN [db |-> db, status |-> IF r.status = "OK" THEN "BAD_REQUEST" ELSE r.status]
        ELSE [db |-> [db EXCEPT !.Node =
                         [i \in 1..Len(db.Node) |->
                             IF i = node \/ db.Node[i].parent_node = node
                             THEN [db.Node[i] EXCEPT !.is_public = (permissions = "public")]
                             ELSE db.Node[i]]],
              status |-> "OK"]

(* project_set_privacy(auth, node): @must_be_valid_project,
   @must_have_permission(ADMIN) *)
project_set_privacy(db, auth, node, permissions) ==
    IF ~must_be_valid_project(db, node)
    THEN [db |-> db, status |-> "GONE"]
    ELSE IF ~must_have_permission(db, auth, node, ADMIN)
    THEN [db |-> db, status |-> "FORBIDDEN"]
    ELSE IF permissions = "none"
    THEN [db |-> db, status |-> "BAD_REQUEST"]
    ELSE LET r == set_privacy(db.Node[node], permissions)
         IN  IF r.err # "ok" THEN [db |-> db, status |-> "BAD_REQUEST"]
             ELSE [db |-> [db EXCEPT !.Node[node] = r.rec], status |-> "OK"]

(* -------------------------- fork and template ------------------------- *)
Mapped(map, old) == CHOOSE new \in {p[2] : p \in {q \in map : q[1] = old}} : TRUE

MapDomain(map) == {p[1] : p \in map}

(* copy n and its active descendants, in order, under the new parent; a
   copy has the title and the category of its source, and a fork its
   description too *)
RECURSIVE CloneTree(_, _, _, _, _, _), CloneChildren(_, _, _, _, _, _)
CloneTree(N, map, n, user, parent, is_fork) ==
    LET key == Len(N) + 1
        rec == [NodeRecord(user, parent) EXCEPT
                   !.is_fork = is_fork,
                   !.title = N[n].title,
                   !.category = N[n].category,
                   !.description = IF is_fork THEN N[n].description ELSE ""]
    IN  CloneChildren(Append(N, rec), map \cup {<<n, key>>},
                      active_children(N, n), user, key, is_fork)

CloneChildren(N, map, cs, user, parent, is_fork) ==
    IF cs = <<>> THEN [N |-> N, map |-> map]
    ELSE LET key == Len(N) + 1
             r == CloneTree(N, map, Head(cs), user, parent, is_fork)
             N2 == [r.N EXCEPT ![parent].nodes = Append(@, key)]
         IN  CloneChildren(N2, r.map, Tail(cs), user, parent, is_fork)

(* the second pass of a fork: a pointer held inside the subtree is copied
   when its target is inside too, and dropped otherwise *)
RECURSIVE RemapPointers(_, _, _, _)
RemapPointers(P, src, map, i) ==
    IF i > Len(src) THEN P
    ELSE LET p == src[i]
             keep == /\ ~p.is_deleted
                     /\ p.host \in MapDomain(map)
                     /\ p.target \in MapDomain(map)
             P1 == IF keep
                   THEN Append(P, [host |-> Mapped(map, p.host),
                                   target |-> Mapped(map, p.target),
                                   is_deleted |-> FALSE])
                   ELSE P
         IN  RemapPointers(P1, src, map, i + 1)

(* Node.fork_node(auth) *)
fork_node(db, auth, n) ==
    IF ~has_permission(db.Node, auth, n, READ)
    THEN [db |-> db, err |-> "PermissionsError", key |-> None]
    ELSE LET r == CloneTree(db.Node, {}, n, auth, None, TRUE)
         IN  [db |-> [Node |-> r.N,
                      Pointer |-> RemapPointers(db.Pointer, db.Pointer, r.map, 1)],
              err |-> "ok", key |-> Len(db.Node) + 1]

(* the changes of a template request apply to the node they are keyed by,
   the template itself: each field named replaces the copied one *)
NoChanges == [f \in {} |-> ""]

ApplyChanges(rec, changes) ==
    [rec EXCEPT !.title = IF "title" \in DOMAIN changes THEN changes.title ELSE @,
                !.category = IF "category" \in DOMAIN changes THEN changes.category ELSE @,
                !.description = IF "description" \in DOMAIN changes
                                THEN changes.description ELSE @]

(* Node.use_as_template(auth, changes) *)
use_as_template(db, auth, n, changes) ==
    IF ~has_permission(db.Node, auth, n, READ)
    THEN [db |-> db, err |-> "PermissionsError", key |-> None]
    ELSE LET r == CloneTree(db.Node, {}, n, auth, None, FALSE)
             key == Len(db.Node) + 1
         IN  [db |-> [db EXCEPT !.Node = [r.N EXCEPT ![key] = ApplyChanges(@, changes)]],
              err |-> "ok", key |-> key]

(* variant: the fork keeps the contributors of the node it was made from *)
node_fork_page_keep_contributors(db, auth, node) ==
    IF ~must_be_valid_project(db, node)
    THEN [db |-> db, status |-> "GONE"]
    ELSE LET r == fork_node(db, auth, node)
         IN  IF r.err = "PermissionsError" THEN [db |-> db, status |-> "FORBIDDEN"]
             ELSE [db |-> [r.db EXCEPT !.Node[r.key].contributors =
                              [u \in Users |-> IF u = auth THEN ADMIN
                                               ELSE db.Node[node].contributors[u]]],
                   status |-> "OK"]

(* variant: the pointers of the source are copied with their targets as
   they are when the target has no copy *)
RECURSIVE CopyPointersVerbatim(_, _, _, _)
CopyPointersVerbatim(P, src, map, i) ==
    IF i > Len(src) THEN P
    ELSE LET p == src[i]
             P1 == IF ~p.is_deleted /\ p.host \in MapDomain(map)
                   THEN Append(P, [host |-> Mapped(map, p.host),
                                   target |-> IF p.target \in MapDomain(map)
                                              THEN Mapped(map, p.target)
                                              ELSE p.target,
                                   is_deleted |-> FALSE])
                   ELSE P
         IN  CopyPointersVerbatim(P1, src, map, i + 1)

node_fork_page_copy_pointers(db, auth, node) ==
    IF ~must_be_valid_project(db, node)
    THEN [db |-> db, status |-> "GONE"]
    ELSE LET r == fork_node(db, auth, node)
             map == CloneTree(db.Node, {}, node, auth, None, TRUE).map
         IN  IF r.err = "PermissionsError" THEN [db |-> db, status |-> "FORBIDDEN"]
             ELSE [db |-> [r.db EXCEPT !.Pointer =
                              CopyPointersVerbatim(db.Pointer, db.Pointer, map, 1)],
                   status |-> "OK"]

(* variant: the children of the fork come in the opposite order *)
node_fork_page_reversed(db, auth, node) ==
    IF ~must_be_valid_project(db, node)
    THEN [db |-> db, status |-> "GONE"]
    ELSE LET r == fork_node(db, auth, node)
         IN  IF r.err = "PermissionsError" THEN [db |-> db, status |-> "FORBIDDEN"]
             ELSE [db |-> [r.db EXCEPT !.Node[r.key].nodes =
                              [i \in 1..Len(@) |-> @[Len(@) + 1 - i]]],
                   status |-> "OK"]

(* variant: the fork is as visible as the node it was made from *)
node_fork_page_keep_public(db, auth, node) ==
    IF ~must_be_valid_project(db, node)
    THEN [db |-> db, status |-> "GONE"]
    ELSE LET r == fork_node(db, auth, node)
         IN  IF r.err = "PermissionsError" THEN [db |-> db, status |-> "FORBIDDEN"]
             ELSE [db |-> [r.db EXCEPT !.Node[r.key].is_public = db.Node[node].is_public],
                   status |-> "OK"]

(* variant: the fork is entered among the children of the node it copies *)
node_fork_page_attached(db, auth, node) ==
    IF ~must_be_valid_project(db, node)
    THEN [db |-> db, status |-> "GONE"]
    ELSE IF http_error_if_disk_saving_mode
    THEN [db |-> db, status |-> "METHOD_NOT_ALLOWED"]
    ELSE LET r == fork_node(db, auth, node)
         IN  IF r.err = "PermissionsError" THEN [db |-> db, status |-> "FORBIDDEN"]
             ELSE [db |-> [r.db EXCEPT !.Node[node].nodes = Append(@, r.key),
                                       !.Node[r.key].parent_node = node],
                   status |-> "OK"]

(* node_fork_page(auth, node): @must_be_valid_project,
   @http_error_if_disk_saving_mode *)
node_fork_page(db, auth, node) ==
    IF ~must_be_valid_project(db, node)
    THEN [db |-> db, status |-> "GONE"]
    ELSE IF http_error_if_disk_saving_mode
    THEN [db |-> db, status |-> "METHOD_NOT_ALLOWED"]
    ELSE LET r == fork_node(db, auth, node)
         IN  IF r.err = "PermissionsError" THEN [db |-> db, status |-> "FORBIDDEN"]
             ELSE [db |-> r.db, status |-> "OK"]

(* variant: the new nodes get the pointers of the nodes they are made from *)
project_new_from_template_with_pointers(db, auth, node) ==
    IF ~must_be_valid_project(db, node)
    THEN [db |-> db, status |-> "GONE"]
    ELSE LET r == use_as_template(db, auth, node, NoChanges)
             map == CloneTree(db.Node, {}, node, auth, None, FALSE).map
         IN  IF r.err # "ok" THEN [db |-> db, status |-> "FORBIDDEN"]
             ELSE [db |-> [r.db EXCEPT !.Pointer =
                              CopyPointersVerbatim(db.Pointer, db.Pointer, map, 1)],
                   status |-> "CREATED"]

(* project_new_from_template(auth, node): @must_be_valid_project *)
project_new_from_template(db, auth, node) ==
    IF ~must_be_valid_project(db, node)
    THEN [db |-> db, status |-> "GONE"]
    ELSE LET r == use_as_template(db, auth, node, NoChanges)
         IN  IF r.err # "ok" THEN [db |-> db, status |-> "FORBIDDEN"]
             ELSE [db |-> r.db, status |-> "CREATED"]

(* variant: the changes of the request are applied to every node made from
   the template *)
project_new_post_override_all(db, auth, data) ==
    LET title == strip(strip_html(data.title))
        description == strip_html(data.description)
    IN  IF data.template # None
        THEN LET changes == IF description # ""
                            THEN [title |-> title, category |-> data.category,
                                  description |-> description]
                            ELSE [title |-> title, category |-> data.category]
                 r == use_as_template(db, auth, data.template, changes)
             IN  IF r.err # "ok" THEN [db |-> db, status |-> "FORBIDDEN"]
                 ELSE [db |-> [r.db EXCEPT !.Node =
                                 [k \in 1..Len(@) |->
                                    IF k > Len(db.Node) THEN ApplyChanges(@[k], changes)
                                    ELSE @[k]]],
                       status |-> "CREATED"]
        ELSE LET r == new_node(db.Node, data.category, title, auth, description, None)
             IN  IF r.err # "ok" THEN [db |-> db, status |-> "BAD_REQUEST"]
                 ELSE [db |-> [db EXCEPT !.Node = r.N], status |-> "CREATED"]

(* project_new_post(auth): a new top-level project, from a template when
   one is named; the title and the category of the body, and its
   description when there is one, are the changes of the template *)
project_new_post(db, auth, data) ==
    LET title == strip(strip_html(data.title))
        description == strip_html(data.description)
    IN  IF data.template # None
        THEN LET changes == IF description # ""
                            THEN [title |-> title, category |-> data.category,
                                  description |-> description]
                            ELSE [title |-> title, category |-> data.category]
                 r == use_as_template(db, auth, data.template, changes)
             IN  IF r.err # "ok" THEN [db |-> db, status |-> "FORBIDDEN"]
                 ELSE [db |-> r.db, status |-> "CREATED"]
        ELSE LET r == new_node(db.Node, data.category, title, auth, description, None)
             IN  IF r.err # "ok" THEN [db |-> db, status |-> "BAD_REQUEST"]
                 ELSE [db |-> [db EXCEPT !.Node = r.N], status |-> "CREATED"]

(* Node.fork_pointer(pointer, auth, save=True): fork the pointer's target
   and point at the fork *)
node_fork_pointer(db, auth, node, pointer) ==
    IF db.Pointer[pointer].host # node \/ db.Pointer[pointer].is_deleted
    THEN [db |-> db, err |-> "ValueError"]
    ELSE LET f == fork_node(db, auth, db.Pointer[pointer].target)
         IN  IF f.err # "ok" THEN [db |-> db, err |-> f.err]
             ELSE LET a == node_add_pointer(f.db, node, f.key)
                  IN  IF a.err # "ok" THEN [db |-> f.db, err |-> a.err]
                      ELSE [db |-> a.mem, err |-> "ok"]

(* fork_pointer(auth, node): @must_have_permission(WRITE),
   @must_not_be_registration *)
fork_pointer(db, auth, node, pointer_id) ==
    IF ~must_have_permission(db, auth, node, WRITE)
    THEN [db |-> db, status |-> "FORBIDDEN"]
    ELSE IF ~must_not_be_registration(db, node)
    THEN [db |-> db, status |-> "BAD_REQUEST"]
    ELSE LET pointer == Load(db.Pointer, pointer_id)
         IN  IF pointer = None THEN [db |-> db, status |-> "BAD_REQUEST"]
             ELSE LET r == node_fork_pointer(db, auth, node, pointer)
                  IN  [db |-> r.db,
                       status |-> IF r.err = "ok" THEN "OK"
                                  ELSE IF r.err = "ValueError" THEN "BAD_REQUEST"
                                  ELSE "FORBIDDEN"]

(* ======================= requests and their effect ==================== *)
NoLast == [op |-> "none"]

NodeKeys == 1..Len(Node)

(* keys a request body may carry: the existing ones and a missing one *)
JsonNodeKeys == 1..(Len(Node) + 1)

JsonPointerKeys == 1..(Len(Pointer) + 1)

(* the response r of a view becomes the new store.  A run is a sequence of
   requests of which the last one may be observed: an observed request is
   remembered in last together with the store it found, and the run ends
   there *)
(* budget is the number of requests still to come in the run *)
Ready == last = NoLast /\ budget > 0

(* out is what the response body carries, where a claim reads it *)
RespondWith(op, auth, args, r, out, audit) ==
    /\ Len(r.db.Node) <= MaxNodes
    /\ Len(r.db.Pointer) <= MaxPointers
    /\ Node' = r.db.Node
    /\ Pointer' = r.db.Pointer
    /\ budget' = budget - 1
    /\ last' = IF audit
               THEN [op |-> op, auth |-> auth, args |-> args,
                     status |-> r.status, pre |-> Store, out |-> out]
               ELSE NoLast
    /\ UNCHANGED <<PrivateLink, DISK_SAVING_MODE, inflight>>

Respond(op, auth, args, r, audit) == RespondWith(op, auth, args, r, None, audit)

MovePointers(audit) ==
    Ready /\ \E auth \in Users, from \in NodeKeys, to \in JsonNodeKeys,
       ids \in SeqsOf(NodeKeys, 1, MaxMove) :
        Respond("move_pointers", auth, [from |-> from, to |-> to, ids |-> ids],
                move_pointers(Store, auth, from, to, ids), audit)

AddPointer(audit) ==
    Ready /\ \E auth \in Users, to \in NodeKeys, target \in JsonNodeKeys :
        Respond("add_pointer", auth, [node |-> to, ids |-> <<target>>],
                add_pointer(Store, auth, to, target), audit)

(* the bodies of an add_pointers request; a request that is refused before
   its body is read leaves the same state whatever the body, so that when
   it is not observed one body stands for all *)
AddBodies(auth, node, audit) ==
    IF audit \/ must_have_permission(Store, auth, node, WRITE)
    THEN SeqsOf(NodeKeys, 0, MaxBatch)
    ELSE {<<>>}

AddPointers(audit) ==
    Ready /\ \E auth \in Users, node \in NodeKeys :
        \E ids \in AddBodies(auth, node, audit) :
            Respond("add_pointers", auth, [node |-> node, ids |-> ids],
                    add_pointers(Store, auth, node, ids), audit)

RemovePointer(audit) ==
    Ready /\ \E auth \in Users, node \in NodeKeys, pointer \in JsonPointerKeys :
        Respond("remove_pointer", auth, [node |-> node, pointer |-> pointer],
                remove_pointer(Store, auth, node, pointer), audit)

RemovePointerFromFolder(audit) ==
    Ready /\ \E auth \in Users, node \in NodeKeys, target \in NodeKeys :
        Respond("remove_pointer_from_folder", auth, [node |-> node, target |-> target],
                remove_pointer_from_folder(Store, auth, node, target), audit)

ForkPointer(audit) ==
    Ready /\ \E auth \in Users, node \in NodeKeys, pointer \in JsonPointerKeys :
        Respond("fork_pointer", auth, [node |-> node, pointer |-> pointer],
                fork_pointer(Store, auth, node, pointer), audit)

(* the keys a reorder request names: the node's stored children, the node
   itself (a key that is no child) and a key that does not load *)
NewListKeys(node) == SeqRange(Node[node].nodes) \cup {node, Len(Node) + 1}

NewLists(node) ==
    SeqsOf({[key |-> k, schema |-> "node"] : k \in NewListKeys(node)},
           0, Len(Node[node].nodes))

ReorderComponents(audit) ==
    Ready /\ \E auth \in Users, node \in NodeKeys :
        \E new_list \in NewLists(node) :
            Respond("project_reorder_components", auth,
                    [node |-> node, new_list |-> new_list],
                    project_reorder_components(Store, auth, node, new_list), audit)

(* the body of a new-project request with the default title *)
ProjectData(template) ==
    [title |-> "t", category |-> "project", template |-> template, description |-> ""]

NewProject(audit) ==
    Ready /\ \E auth \in Users, template \in {None} \cup NodeKeys :
        Respond("project_new_post", auth, ProjectData(template),
                project_new_post(Store, auth, ProjectData(template)), audit)

NewFromTemplate(audit) ==
    Ready /\ \E auth \in Users, node \in NodeKeys :
        Respond("project_new_from_template", auth, [node |-> node],
                project_new_from_template(Store, auth, node), audit)

(* a new-project request with any title, category and description *)
Descriptions == {"", "d"}

NewProjectTitled(audit) ==
    Ready /\ \E auth \in Users, title \in Titles, category \in Categories,
             template \in {None} \cup NodeKeys, description \in Descriptions :
        LET data == [title |-> title, category |-> category,
                     template |-> template, description |-> description]
        IN  Respond("project_new_post", auth, data,
                    project_new_post(Store, auth, data), audit)

(* the form of a new-component request with the default title *)
NodeForm(inherit) ==
    [title |-> "t", category |-> "project", inherit_contributors |-> inherit]

NewNode(audit) ==
    Ready /\ \E auth \in Users, node \in NodeKeys, inherit \in BOOLEAN :
        Respond("project_new_node", auth, [node |-> node, inherit |-> inherit],
                project_new_node(Store, auth, node, NodeForm(inherit)), audit)

(* a new-component request with any title and category *)
NewNodeTitled(audit) ==
    Ready /\ \E auth \in Users, node \in NodeKeys, title \in Titles,
             category \in Categories :
        LET form == [title |-> title, category |-> category,
                     inherit_contributors |-> FALSE]
        IN  Respond("project_new_node", auth, [node |-> node, form |-> form],
                    project_new_node(Store, auth, node, form), audit)

ComponentRemove(audit) ==
    Ready /\ \E auth \in Users, node \in NodeKeys :
        LET r == component_remove(Store, auth, node)
        IN  RespondWith("component_remove", auth, [node |-> node], r,
                        [url |-> r.url, saves |-> r.saves], audit)

SetPrivacy(audit) ==
    Ready /\ \E auth \in Users, node \in NodeKeys, permissions \in {"public", "private", "none"} :
        Respond("project_set_privacy", auth, [node |-> node, permissions |-> permissions],
                project_set_privacy(Store, auth, node, permissions), audit)

ForkPage(audit) ==
    Ready /\ \E auth \in Users, node \in NodeKeys :
        Respond("node_fork_page", auth, [node |-> node],
                node_fork_page(Store, auth, node), audit)

UpdateBodies == {<<>>} \cup {<<[key |-> k, value |-> v]>> : k \in Fields, v \in Titles}

UpdateNode(audit) ==
    Ready /\ \E auth \in Users, node \in NodeKeys, json \in UpdateBodies :
        Respond("update_node", auth, [node |-> node, json |-> json],
                update_node(Store, auth, node, json), audit)

(* the requests on private links change the link collection only; an
   observed one is remembered with the links it found *)
RespondLink(op, auth, args, r, audit) ==
    /\ Len(r.links) <= MaxLinks
    /\ PrivateLink' = r.links
    /\ budget' = budget - 1
    /\ last' = IF audit
               THEN [op |-> op, auth |-> auth, args |-> args, status |-> r.status,
                     pre |-> Store, out |-> None, links |-> PrivateLink]
               ELSE NoLast
    /\ UNCHANGED <<Node, Pointer, DISK_SAVING_MODE, inflight>>

JsonLinkKeys == 1..(Len(PrivateLink) + 1)

LinkNames == {"x", "", "<b>y</b>"}

GeneratePrivateLink(audit) ==
    Ready /\ \E auth \in Users, node \in NodeKeys, node_ids \in SeqsOf(NodeKeys, 0, MaxBatch),
                name \in LinkNames, anonymous \in BOOLEAN :
        RespondLink("project_generate_private_link_post", auth,
                    [node |-> node, node_ids |-> node_ids, name |-> name,
                     anonymous |-> anonymous],
                    project_generate_private_link_post(Store, PrivateLink, auth, node,
                                                       node_ids, name, anonymous),
                    audit)

PrivateLinkEdit(audit) ==
    Ready /\ \E auth \in Users, node \in NodeKeys, value \in LinkNames, pk \in JsonLinkKeys :
        RespondLink("project_private_link_edit", auth,
                    [node |-> node, value |-> value, pk |-> pk],
                    project_private_link_edit(Store, PrivateLink, auth, node, value, pk),
                    audit)

(* the values a request body may give a field *)
FieldValues(k) ==
    IF k = "title" THEN Titles
    ELSE IF k = "category" THEN Categories
    ELSE IF k = "description" THEN Descriptions
    ELSE {"x"}

FieldEntries == UNION {{[key |-> k, value |-> v] : v \in FieldValues(k)} : k \in Fields}

(* the bodies that name one field, or two different fields in either order *)
UpdatePairs ==
    {<<a>> : a \in FieldEntries}
        \cup {<<x[1], x[2]>> : x \in {y \in FieldEntries \X FieldEntries : y[1].key # y[2].key}}

(* an update of one field with a value of that field *)
UpdateOne(audit) ==
    Ready /\ \E auth \in Users, node \in NodeKeys, a \in FieldEntries :
        LET r == update_node(Store, auth, node, <<a>>)
        IN  RespondWith("update_node", auth, [node |-> node, json |-> <<a>>], r,
                        [key |-> r.key, updated_fields |-> r.updated_fields], audit)

UpdateFields(audit) ==
    Ready /\ \E auth \in Users, node \in NodeKeys, json \in UpdatePairs :
        LET r == update_node(Store, auth, node, json)
        IN  RespondWith("update_node", auth, [node |-> node, json |-> json], r,
                        [key |-> r.key, updated_fields |-> r.updated_fields], audit)

(* ----------------------- requests that overlap ------------------------ *)
(* project_reorder_components in two steps, as two server processes run it
   next to another request: the decorator loads node and the view computes
   the list to store from what it loaded (lines 387-404); node.nodes is
   assigned and saved afterwards (lines 405-406).  inflight holds the
   request between the two steps *)
ReorderLoad ==
    Ready /\ inflight = <<>> /\ \E auth \in Users, node \in NodeKeys :
        \E new_list \in NewLists(node) :
            LET r == project_reorder_components(Store, auth, node, new_list)
            IN  /\ inflight' = <<[auth |-> auth, node |-> node, new_list |-> new_list,
                                 status |-> r.status, nodes |-> r.db.Node[node].nodes,
                                 saved |-> FALSE]>>
                /\ UNCHANGED <<Node, Pointer, PrivateLink, DISK_SAVING_MODE, last, budget>>

(* a reorder has loaded its node and has not saved yet *)
Overlapping == inflight # <<>> /\ ~inflight[1].saved

(* node.save() of the reorder in flight: the child list it computed is
   written over the stored one *)
ReorderSave ==
    /\ Overlapping
    /\ last # NoLast
    /\ Node' = IF inflight[1].status = "OK"
               THEN [Node EXCEPT ![inflight[1].node].nodes = inflight[1].nodes]
               ELSE Node
    /\ inflight' = <<[inflight[1] EXCEPT !.saved = TRUE]>>
    /\ UNCHANGED <<Pointer, PrivateLink, DISK_SAVING_MODE, last, budget>>

(* the request that runs between the two steps *)
OverlapNewNode == Overlapping /\ NewNode(TRUE)

OverlapComponentRemove == Overlapping /\ ComponentRemove(TRUE)

OverlapReorder == Overlapping /\ ReorderComponents(TRUE)

(* ------------------- a fork that overlaps deletions -------------------- *)
(* Node.fork_node node by node, as a server process runs it next to other
   requests: each node of the source is read when the traversal reaches it.
   A task holds the nodes still to visit, each with the copy it goes under,
   and the copies made so far *)
ForkRecord(N, n, user, parent) ==
    [NodeRecord(user, parent) EXCEPT !.is_fork = TRUE,
                                     !.title = N[n].title,
                                     !.category = N[n].category,
                                     !.description = N[n].description]

(* variant: the copy is entered in the child list of its parent before the
   source node is read *)
fork_visit_linking_first(db, task) ==
    LET t == Head(task.todo)
        key == Len(db.Node) + 1
        linked == IF t.parent = None THEN db.Node
                  ELSE [db.Node EXCEPT ![t.parent].nodes = Append(@, key)]
    IN  IF db.Node[t.src].is_deleted
        THEN [db |-> [db EXCEPT !.Node = linked],
              task |-> [task EXCEPT !.todo = Tail(@)]]
        ELSE [db |-> [db EXCEPT !.Node =
                        Append(linked, ForkRecord(db.Node, t.src, task.auth, t.parent))],
              task |-> [task EXCEPT
                          !.todo = [i \in 1..Len(db.Node[t.src].nodes) |->
                                      [src |-> db.Node[t.src].nodes[i], parent |-> key]]
                                   \o Tail(@),
                          !.map = @ \cup {<<t.src, key>>}]]

(* one node of the traversal: a deleted node is passed over, and with it
   whatever is below it; any other node is copied under the copy of its
   parent and its children are visited next, in order *)
fork_visit(db, task) ==
    LET t == Head(task.todo)
        key == Len(db.Node) + 1
        N1 == Append(db.Node, ForkRecord(db.Node, t.src, task.auth, t.parent))
        N2 == IF t.parent = None THEN N1
              ELSE [N1 EXCEPT ![t.parent].nodes = Append(@, key)]
    IN  IF db.Node[t.src].is_deleted
        THEN [db |-> db, task |-> [task EXCEPT !.todo = Tail(@)]]
        ELSE [db |-> [db EXCEPT !.Node = N2],
              task |-> [task EXCEPT
                          !.todo = [i \in 1..Len(db.Node[t.src].nodes) |->
                                      [src |-> db.Node[t.src].nodes[i], parent |-> key]]
                                   \o Tail(@),
                          !.map = @ \cup {<<t.src, key>>}]]

Forking == inflight # <<>>

(* node_fork_page up to the copy of the node itself *)
ForkBegin ==
    Ready /\ inflight = <<>> /\ \E auth \in Users, node \in NodeKeys :
        /\ must_be_valid_project(Store, node)
        /\ ~http_error_if_disk_saving_mode
        /\ has_permission(Node, auth, node, READ)
        /\ LET task == [auth |-> auth, node |-> node, pre |-> Store, map |-> {},
                        todo |-> <<[src |-> node, parent |-> None]>>]
               r == fork_visit(Store, task)
           IN  /\ Len(r.db.Node) <= MaxNodes
               /\ Node' = r.db.Node
               /\ inflight' = <<r.task>>
        /\ UNCHANGED <<Pointer, PrivateLink, DISK_SAVING_MODE, last, budget>>

ForkVisit ==
    /\ Ready /\ Forking /\ inflight[1].todo # <<>>
    /\ LET r == fork_visit(Store, inflight[1])
       IN  /\ Len(r.db.Node) <= MaxNodes
           /\ Node' = r.db.Node
           /\ inflight' = <<r.task>>
    /\ UNCHANGED <<Pointer, PrivateLink, DISK_SAVING_MODE, last, budget>>

(* the end of the traversal: the pointers inside the fork, and the answer *)
ForkEnd ==
    /\ Ready /\ Forking /\ inflight[1].todo = <<>>
    /\ Pointer' = RemapPointers(Pointer, Pointer, inflight[1].map, 1)
    /\ Len(Pointer') <= MaxPointers
    /\ last' = [op |-> "node_fork_page", auth |-> inflight[1].auth,
                args |-> [node |-> inflight[1].node], status |-> "OK",
                pre |-> inflight[1].pre, out |-> [map |-> inflight[1].map]]
    /\ budget' = budget - 1
    /\ inflight' = <<>>
    /\ UNCHANGED <<Node, PrivateLink, DISK_SAVING_MODE>>

(* a deletion request, before the fork or while it runs; while it runs, the
   request is for a node of the source below the forked one *)
SourceRemove ==
    Ready /\ \E auth \in Users, node \in NodeKeys :
        /\ Forking => /\ node \in 1..Len(inflight[1].pre.Node)
                      /\ inflight[1].node \in Ancestors(inflight[1].pre.Node, node)
        /\ LET r == component_remove(Store, auth, node)
           IN  RespondWith("component_remove", auth, [node |-> node], r,
                           [url |-> r.url, saves |-> r.saves], FALSE)

(* ============================ initial states ========================== *)
(* the stores one successful creation request leads to *)
Created(N, users) ==
    LET db == [Node |-> N, Pointer |-> <<>>]
    IN  {project_new_post(db, u, ProjectData(None)).db.Node : u \in users}
        \cup {project_new_node(db, x[1], x[2], NodeForm(FALSE)).db.Node :
                 x \in {y \in users \X (1..Len(N)) :
                           project_new_node(db, y[1], y[2], NodeForm(FALSE)).status = "CREATED"}}

(* the node collections that at most k creation requests by users lead to *)
RECURSIVE Forests(_, _)
Forests(k, users) ==
    IF k = 0 THEN {<<>>}
    ELSE LET F == Forests(k - 1, users)
         IN  F \cup UNION {Created(N, users) : N \in F}

(* contributors and the public flag are also set by requests of other view
   modules (contributor management, privacy): the node collections N leads
   to when the second user is given any level on each node and each node is
   made public or left private *)
Levels == {NoPermission, READ, WRITE, ADMIN}

Granted(N) ==
    {[i \in 1..Len(N) |-> [N[i] EXCEPT !.contributors["u2"] = lv[i],
                                        !.is_public = pub[i]]] :
        lv \in [1..Len(N) -> Levels], pub \in [1..Len(N) -> BOOLEAN]}

(* registrations are made by requests of the registration views: the node
   collections N leads to when some nodes, each with all its descendants,
   are registrations *)
Registered(N) ==
    {[i \in 1..Len(N) |-> [N[i] EXCEPT !.is_registration = (i \in R)]] :
        R \in {S \in SUBSET (1..Len(N)) :
                  \A n \in S : SeqRange(N[n].nodes) \subseteq S}}

(* a registration may be under way (archiving) or withdrawn (retracted) *)
Lifecycles(N) ==
    {[i \in 1..Len(N) |-> [N[i] EXCEPT !.archiving = (st[i] = "archiving"),
                                        !.is_retracted = (st[i] = "retracted")]] :
        st \in {f \in [1..Len(N) -> {"active", "archiving", "retracted"}] :
                  \A i \in 1..Len(N) : ~N[i].is_registration => f[i] = "active"}}

(* modes is the set of values the deployment's DISK_SAVING_MODE setting may
   have; it is a setting and no request changes it *)
InitMode(requests, forests, modes) ==
    /\ Node \in forests
    /\ Pointer = <<>>
    /\ PrivateLink = <<>>
    /\ DISK_SAVING_MODE \in modes
    /\ inflight = <<>>
    /\ last = NoLast
    /\ budget = requests

InitWith(requests, forests) == InitMode(requests, forests, {FALSE})

(* one owner's nodes to start from; every user sends requests *)
Init == InitWith(MaxDepth, Forests(MaxInitNodes - 1, {"u1"}))

(* one owner's nodes: move_pointers never reads a permission, and its
   requests come from the owner and from a stranger *)
InitMove == InitWith(MaxOps - 1, Forests(MaxInitNodes, {"u1"}))

InitAdd == InitWith(MaxOps, Forests(MaxInitNodes - 1, Users))

InitReorder == InitWith(MaxOps, Forests(MaxFamily, Users))

InitRace == InitWith(1, Forests(MaxInitNodes, Users))

(* one owner's nodes, shared at every level with the second user; a silent
   request may add pointers before the observed one *)
InitGuard == InitWith(MaxDepth, UNION {Granted(N) : N \in Forests(MaxInitNodes - 1, {"u1"})})

(* nodes of which some are registrations *)
InitFrozen == InitWith(MaxDepth, UNION {Registered(N) : N \in Forests(MaxInitNodes - 1, Users)})

(* one owner's nodes, some of them registrations in any lifecycle state,
   shared at every level with the second user *)
InitPrivacy ==
    \E N \in Forests(MaxInitNodes - 1, {"u1"}) :
        \E R \in Registered(N) : \E L \in Lifecycles(R) : InitWith(1, Granted(L))

(* one owner's nodes, some of them registrations; deletions by the owner
   and by a stranger *)
InitRemove ==
    \E N \in Forests(MaxInitNodes, {"u1"}) : InitWith(MaxDepth, Registered(N))

(* one owner's nodes, shared at every level with the second user, public or
   private; one deletion *)
InitRedirect ==
    \E N \in Forests(MaxInitNodes, {"u1"}) : InitWith(1, Granted(N))

(* both users' nodes; a link is made silently before the observed request *)
InitLink == InitWith(MaxDepth, Forests(MaxInitNodes - 1, Users))

(* one owner's nodes, shared at every level with the second user, public or
   private; one fork *)
InitFork ==
    \E N \in Forests(MaxInitNodes - 1, {"u1"}) : InitWith(1, Granted(N))

(* one owner's nodes; a pointer is added or a node deleted before the fork *)
InitForkTree ==
    \E N \in Forests(MaxInitNodes, {"u1"}) : InitWith(MaxDepth, {N})

(* one owner's nodes, with the storage-conservation mode on or off; a silent
   request may add a pointer before the observed fork *)
InitDisk ==
    \E N \in Forests(MaxInitNodes - 1, {"u1"}) : InitMode(MaxDepth, Granted(N), BOOLEAN)

(* the node collections N leads to when the second user is made a reader of
   some of the nodes *)
Readers(N) ==
    {[i \in 1..Len(N) |-> [N[i] EXCEPT !.contributors["u2"] = lv[i]]] :
        lv \in [1..Len(N) -> {NoPermission, READ}]}

(* one owner's nodes, some of them read by the second user; a pointer is
   added or a node deleted before the template is used *)
InitTemplate ==
    \E N \in Forests(MaxInitNodes, {"u1"}) : InitWith(MaxDepth, Readers(N))

(* one owner's nodes; a component with its own title and category is added
   before the project is made *)
InitOverride == InitWith(MaxDepth, Forests(MaxInitNodes - 1, {"u1"}))

(* one owner's nodes; a field is updated before the observed update *)
InitUpdate == InitWith(MaxDepth, Forests(MaxInitNodes - 1, {"u1"}))

(* the node collections N leads to when some of the nodes are made public *)
Published(N) ==
    {[i \in 1..Len(N) |-> [N[i] EXCEPT !.is_public = pub[i]]] :
        pub \in [1..Len(N) -> BOOLEAN]}

(* one owner's nodes, public or private; a component is added or deleted
   before the observed creation *)
InitCreate ==
    \E N \in Forests(MaxInitNodes - 1, {"u1"}) : InitWith(MaxDepth, Published(N))

(* one owner's nodes; any requests that make, copy, reorder and delete
   nodes follow *)
InitChain == InitWith(MaxOps, Forests(MaxInitNodes - 1, {"u1"}))

(* one owner's nodes; deletions before and during one fork *)
InitForkRace ==
    \E N \in Forests(MaxInitNodes, {"u1"}) : InitWith(MaxDepth, {N})

(* the node collections N leads to when, on each node, the user who did not
   create it is given any level *)
Shared(N) ==
    {[i \in 1..Len(N) |->
        [N[i] EXCEPT !.contributors =
            [u \in Users |-> IF u = N[i].creator THEN @[u] ELSE lv[i]]]] :
        lv \in [1..Len(N) -> Levels]}

(* both users' nodes, each shared at any level with the other user; one
   creation of a component *)
InitInherit ==
    \E N \in Forests(MaxInitNodes - 1, Users) : InitWith(1, Shared(N))

(* one owner's nodes, some of them read by the second user; a pointer is
   added or a node deleted before the fork or the template *)
InitFrame ==
    \E N \in Forests(MaxInitNodes, {"u1"}) : InitWith(MaxDepth, Readers(N))

(* every request of the views, none remembered *)
Next ==
    \/ NewProject(FALSE)
    \/ NewFromTemplate(FALSE)
    \/ NewNode(FALSE)
    \/ ComponentRemove(FALSE)
    \/ SetPrivacy(FALSE)
    \/ ReorderComponents(FALSE)
    \/ ForkPage(FALSE)
    \/ AddPointers(FALSE)
    \/ AddPointer(FALSE)
    \/ RemovePointer(FALSE)
    \/ RemovePointerFromFolder(FALSE)
    \/ MovePointers(FALSE)
    \/ ForkPointer(FALSE)

Spec == Init /\ [][Next]_vars

(* pointer requests, then one observed move_pointers *)
NextMove ==
    \/ AddPointer(FALSE)
    \/ MovePointers(TRUE)

SpecMove == InitMove /\ [][NextMove]_vars

(* pointer requests, then one observed request that adds pointers *)
NextAdd ==
    \/ AddPointers(FALSE)
    \/ RemovePointer(FALSE)
    \/ RemovePointerFromFolder(FALSE)
    \/ AddPointers(TRUE)
    \/ AddPointer(TRUE)

SpecAdd == InitAdd /\ [][NextAdd]_vars

(* deletions, then one observed reorder *)
NextReorder ==
    \/ ComponentRemove(FALSE)
    \/ ReorderComponents(TRUE)

SpecReorder == InitReorder /\ [][NextReorder]_vars

(* one reorder that overlaps one other request on the tree *)
NextRace ==
    \/ ReorderLoad
    \/ OverlapNewNode
    \/ OverlapComponentRemove
    \/ OverlapReorder
    \/ ReorderSave

SpecRace == InitRace /\ [][NextRace]_vars

(* ============================ the claims ============================== *)
NextGuard ==
    \/ AddPointers(FALSE)
    \/ NewNode(TRUE)
    \/ ReorderComponents(TRUE)
    \/ ComponentRemove(TRUE)
    \/ UpdateNode(TRUE)
    \/ AddPointers(TRUE)
    \/ AddPointer(TRUE)
    \/ RemovePointer(TRUE)
    \/ ForkPointer(TRUE)
    \/ SetPrivacy(TRUE)

SpecGuard == InitGuard /\ [][NextGuard]_vars

(* a silent pointer addition, then any request of the views, observed *)
NextFrozen ==
    \/ AddPointers(FALSE)
    \/ NewProject(TRUE)
    \/ NewFromTemplate(TRUE)
    \/ NewNode(TRUE)
    \/ ComponentRemove(TRUE)
    \/ SetPrivacy(TRUE)
    \/ UpdateNode(TRUE)
    \/ ReorderComponents(TRUE)
    \/ ForkPage(TRUE)
    \/ AddPointers(TRUE)
    \/ AddPointer(TRUE)
    \/ RemovePointer(TRUE)
    \/ RemovePointerFromFolder(TRUE)
    \/ MovePointers(TRUE)
    \/ ForkPointer(TRUE)

SpecFrozen == InitFrozen /\ [][NextFrozen]_vars

NextPrivacy == SetPrivacy(TRUE)

SpecPrivacy == InitPrivacy /\ [][NextPrivacy]_vars

NextRemove ==
    \/ ComponentRemove(FALSE)
    \/ ComponentRemove(TRUE)

SpecRemove == InitRemove /\ [][NextRemove]_vars

NextRedirect == ComponentRemove(TRUE)

SpecRedirect == InitRedirect /\ [][NextRedirect]_vars

NextLink ==
    \/ GeneratePrivateLink(FALSE)
    \/ GeneratePrivateLink(TRUE)
    \/ PrivateLinkEdit(TRUE)

SpecLink == InitLink /\ [][NextLink]_vars

NextFork == ForkPage(TRUE)

SpecFork == InitFork /\ [][NextFork]_vars

NextForkTree ==
    \/ AddPointers(FALSE)
    \/ ComponentRemove(FALSE)
    \/ ForkPage(TRUE)

SpecForkTree == InitForkTree /\ [][NextForkTree]_vars

NextDisk ==
    \/ AddPointers(FALSE)
    \/ ForkPage(TRUE)
    \/ ForkPointer(TRUE)

SpecDisk == InitDisk /\ [][NextDisk]_vars

NextTemplate ==
    \/ AddPointer(FALSE)
    \/ ComponentRemove(FALSE)
    \/ NewFromTemplate(TRUE)
    \/ NewProject(TRUE)

NextOverride ==
    \/ NewNodeTitled(FALSE)
    \/ NewFromTemplate(TRUE)
    \/ NewProjectTitled(TRUE)

SpecOverride == InitOverride /\ [][NextOverride]_vars

SpecTemplate == InitTemplate /\ [][NextTemplate]_vars

NextUpdate ==
    \/ UpdateOne(FALSE)
    \/ UpdateFields(TRUE)

SpecUpdate == InitUpdate /\ [][NextUpdate]_vars

NextCreate ==
    \/ NewNode(FALSE)
    \/ ComponentRemove(FALSE)
    \/ NewNodeTitled(TRUE)

SpecCreate == InitCreate /\ [][NextCreate]_vars

NextChain ==
    \/ NewProject(FALSE)
    \/ NewNode(FALSE)
    \/ ForkPage(FALSE)
    \/ NewFromTemplate(FALSE)
    \/ ReorderComponents(FALSE)
    \/ ComponentRemove(FALSE)

SpecChain == InitChain /\ [][NextChain]_vars

NextForkRace ==
    \/ ForkBegin
    \/ ForkVisit
    \/ SourceRemove
    \/ ForkEnd

SpecForkRace == InitForkRace /\ [][NextForkRace]_vars

NextInherit == NewNode(TRUE)

SpecInherit == InitInherit /\ [][NextInherit]_vars

NextFrame ==
    \/ AddPointer(FALSE)
    \/ ComponentRemove(FALSE)
    \/ ForkPage(TRUE)
    \/ NewFromTemplate(TRUE)
    \/ NewProject(TRUE)

SpecFrame == InitFrame /\ [][NextFrame]_vars

Observed(op) == last.op = op

Count(s, x) == Cardinality({i \in 1..Len(s) : s[i] = x})

IsPermutation(s, t) ==
    /\ Len(s) = Len(t)
    /\ \A x \in SeqRange(s) \cup SeqRange(t) : Count(s, x) = Count(t, x)

ActiveRecords(P, hosts, target) ==
    {i \in 1..Len(P) : P[i].host \in hosts /\ P[i].target = target /\ ~P[i].is_deleted}

(* --- move_pointers --- *)
(* C1: after move_pointers ends, however it ends, a target that from_node
   pointed at is not left pointed at by neither from_node nor to_node, nor
   by both; when the add on to_node is rejected from_node still points at
   it. *)
C1_MoveIsAtomic ==
    Observed("move_pointers") /\ last.args.to \in 1..Len(last.pre.Node) =>
        LET from == last.args.from
            to == last.args.to
        IN  \A x \in SeqRange(last.args.ids) :
                x \in PointerTargets(last.pre.Pointer, from) =>
                    /\ x \in PointerTargets(Pointer, from) \/ x \in PointerTargets(Pointer, to)
                    /\ from # to /\ x \notin PointerTargets(last.pre.Pointer, to) =>
                           ~(x \in PointerTargets(Pointer, from)
                               /\ x \in PointerTargets(Pointer, to))

(* C2: when A points at B and move_pointers(A, C, B) succeeds, A no longer
   points at B, C points at B, and exactly one active pointer record to B
   exists across A and C. *)
C2_MoveSucceeds ==
    Observed("move_pointers") /\ last.status = "OK" /\ last.args.from # last.args.to =>
        LET A == last.args.from
            C == last.args.to
        IN  \A B \in SeqRange(last.args.ids) :
                /\ B \in PointerTargets(last.pre.Pointer, A)
                /\ B \notin PointerTargets(Pointer, A)
                /\ B \in PointerTargets(Pointer, C)
                /\ Cardinality(ActiveRecords(Pointer, {A, C}, B)) = 1

C2_Witness ==
    /\ Observed("move_pointers")
    /\ last.status = "OK"
    /\ last.args.from # last.args.to
    /\ last.args.ids # <<>>
    /\ \E i \in 1..Len(last.pre.Pointer) :
           /\ ~last.pre.Pointer[i].is_deleted
           /\ last.pre.Pointer[i].host = last.args.from
           /\ last.pre.Pointer[i].target = last.args.ids[1]
           /\ Pointer[i].is_deleted

(* C3: move_pointers by an actor without write on from_node or on to_node
   fails with a permission error and changes no pointer; stated for the
   requests that name a target from_node points at. *)
C3_MoveRequiresWrite ==
    /\ Observed("move_pointers")
    /\ last.args.to \in 1..Len(last.pre.Node)
    /\ last.args.ids[1] \in PointerTargets(last.pre.Pointer, last.args.from)
    /\ \/ ~has_permission(last.pre.Node, last.auth, last.args.from, WRITE)
       \/ ~has_permission(last.pre.Node, last.auth, last.args.to, WRITE)
    => last.status = "FORBIDDEN" /\ Pointer = last.pre.Pointer

(* --- add_pointers --- *)
RejectedTarget(db, host, ids, i) ==
    \/ ids[i] = host
    \/ ids[i] \in PointerTargets(db.Pointer, host)
    \/ TreeRelated(db.Node, host, ids[i])
    \/ \E j \in 1..(i - 1) : ids[j] = ids[i]

(* C4: add_pointers is all or nothing: with a rejected target in the batch
   no pointer of the batch is persisted, also not the valid ones before it;
   with none rejected every target becomes an active pointer of the host. *)
C4_AddAllOrNothing ==
    Observed("add_pointers") =>
        LET host == last.args.node
            ids == last.args.ids
            rejected == {i \in 1..Len(ids) : RejectedTarget(last.pre, host, ids, i)}
        IN  /\ rejected # {} => Pointer = last.pre.Pointer /\ last.status # "OK"
            /\ /\ rejected = {}
               /\ ids # <<>>
               /\ has_permission(last.pre.Node, last.auth, host, WRITE)
               /\ ~last.pre.Node[host].is_registration
               => /\ last.status = "OK"
                  /\ SeqRange(ids) \subseteq PointerTargets(Pointer, host)
                  /\ Len(Pointer) = Len(last.pre.Pointer) + Len(ids)

C4_Witness ==
    /\ Observed("add_pointers")
    /\ last.status = "BAD_REQUEST"
    /\ has_permission(last.pre.Node, last.auth, last.args.node, WRITE)
    /\ Len(last.args.ids) = 2
    /\ ~RejectedTarget(last.pre, last.args.node, last.args.ids, 1)
    /\ RejectedTarget(last.pre, last.args.node, last.args.ids, 2)

(* C5: every active pointer has a target other than its host that is
   neither a tree ancestor nor a tree descendant of the host. *)
C5_PointersAvoidTree ==
    \A i \in 1..Len(Pointer) :
        ~Pointer[i].is_deleted =>
            /\ Pointer[i].host # Pointer[i].target
            /\ ~TreeRelated(Node, Pointer[i].host, Pointer[i].target)

C5_Witness ==
    \E i \in 1..Len(Pointer) :
        /\ ~Pointer[i].is_deleted
        /\ Node[Pointer[i].host].parent_node # None
        /\ Node[Pointer[i].target].is_fork

(* C6: no two active pointers share host and target; adding (H, T) while
   (H, T) is active is rejected and changes nothing; once no active (H, T)
   is left, adding it succeeds. *)
C6_NoDuplicatePointer ==
    /\ \A i, j \in 1..Len(Pointer) :
           /\ i # j
           /\ ~Pointer[i].is_deleted /\ ~Pointer[j].is_deleted
           /\ Pointer[i].host = Pointer[j].host
           => Pointer[i].target # Pointer[j].target
    /\ Observed("add_pointers") \/ Observed("add_pointer") =>
           LET H == last.args.node
               ids == last.args.ids
           IN  /\ (\E i \in 1..Len(ids) : ids[i] \in PointerTargets(last.pre.Pointer, H))
                      => last.status # "OK" /\ Pointer = last.pre.Pointer
               /\ /\ Observed("add_pointers")
                  /\ Len(ids) = 1
                  /\ ~RejectedTarget(last.pre, H, ids, 1)
                  /\ has_permission(last.pre.Node, last.auth, H, WRITE)
                  => last.status = "OK" /\ ids[1] \in PointerTargets(Pointer, H)

C6_Witness ==
    /\ Observed("add_pointers")
    /\ last.status = "OK"
    /\ \E i \in 1..Len(last.pre.Pointer) :
           /\ last.pre.Pointer[i].is_deleted
           /\ last.pre.Pointer[i].host = last.args.node
           /\ last.pre.Pointer[i].target = last.args.ids[1]

(* --- project_reorder_components --- *)
ReorderPasses ==
    /\ Observed("project_reorder_components")
    /\ ~last.pre.Node[last.args.node].is_deleted
    /\ ~last.pre.Node[last.args.node].is_registration
    /\ has_permission(last.pre.Node, last.auth, last.args.node, WRITE)

NewOrder == [i \in 1..Len(last.args.new_list) |-> last.args.new_list[i].key]

NamesNodes == \A i \in 1..Len(last.args.new_list) : last.args.new_list[i].schema = "node"

PreActive == active_children(last.pre.Node, last.args.node)

PreDeleted == deleted_children(last.pre.Node, last.args.node)

(* C7: a reorder by an actor with write, to a permutation of the node's
   active children, succeeds, and the active children then read back as
   exactly that permutation. *)
C7_ReorderYieldsPermutation ==
    ReorderPasses /\ NamesNodes /\ IsPermutation(NewOrder, PreActive) =>
        /\ last.status = "OK"
        /\ active_children(Node, last.args.node) = NewOrder

C7_Witness ==
    /\ ReorderPasses
    /\ last.status = "OK"
    /\ Len(PreActive) >= 2
    /\ NewOrder # PreActive
    /\ PreDeleted # <<>>

(* C8: a reorder whose list omits an active child, or names a key that is
   no active child of the node (a soft-deleted child's key included), is
   refused as a bad request and the stored child order stays as it was. *)
C8_ReorderRefusesMismatch ==
    /\ ReorderPasses
    /\ \/ \E c \in SeqRange(PreActive) : c \notin SeqRange(NewOrder)
       \/ \E i \in 1..Len(NewOrder) : NewOrder[i] \notin SeqRange(PreActive)
       \/ ~NamesNodes
    => /\ last.status = "BAD_REQUEST"
       /\ Node[last.args.node].nodes = last.pre.Node[last.args.node].nodes
       /\ Node = last.pre.Node

C8_Witness ==
    /\ ReorderPasses
    /\ last.status = "BAD_REQUEST"
    /\ PreActive # <<>>
    /\ SeqRange(PreActive) \subseteq SeqRange(NewOrder)
    /\ \E d \in SeqRange(PreDeleted) : d \in SeqRange(NewOrder)

(* C9: a reorder is accepted exactly when its list is a permutation of the
   active children as a multiset: a list of the right length that repeats
   a key is refused, and after an accepted reorder no key occurs twice in
   the stored child list. *)
C9_ReorderIffMultiset ==
    ReorderPasses =>
        /\ last.status = "OK" <=> NamesNodes /\ IsPermutation(NewOrder, PreActive)
        /\ last.status = "OK" =>
               \A c \in SeqRange(Node[last.args.node].nodes) :
                   Count(Node[last.args.node].nodes, c) = 1

C9_Witness ==
    /\ ReorderPasses
    /\ last.status = "BAD_REQUEST"
    /\ Len(NewOrder) = Len(PreActive)
    /\ SeqRange(NewOrder) \subseteq SeqRange(PreActive)
    /\ \E c \in SeqRange(NewOrder) : Count(NewOrder, c) = 2

(* C10: an accepted reorder changes only the node's child list, which
   becomes the new order followed by the soft-deleted children in their
   previous relative order; no child is dropped, duplicated or reactivated. *)
C10_ReorderKeepsDeleted ==
    Observed("project_reorder_components") /\ last.status = "OK" =>
        LET n == last.args.node
        IN  /\ Node[n].nodes = NewOrder \o PreDeleted
            /\ IsPermutation(Node[n].nodes, last.pre.Node[n].nodes)
            /\ deleted_children(Node, n) = PreDeleted
            /\ Node = [last.pre.Node EXCEPT ![n].nodes = Node[n].nodes]
            /\ Pointer = last.pre.Pointer

C10_Witness ==
    /\ Observed("project_reorder_components")
    /\ last.status = "OK"
    /\ Len(PreDeleted) >= 2
    /\ PreActive # <<>>
    /\ Node[last.args.node].nodes # last.pre.Node[last.args.node].nodes

(* --- overlapping requests --- *)
(* a request applied to a store on its own *)
Serial(db, op, auth, args) ==
    CASE op = "project_new_node" ->
             project_new_node(db, auth, args.node, NodeForm(args.inherit))
      [] op = "component_remove" -> component_remove(db, auth, args.node)
      [] op = "project_reorder_components" ->
             project_reorder_components(db, auth, args.node, args.new_list)

(* both overlapping requests have ended *)
RaceDone == inflight # <<>> /\ inflight[1].saved

(* the other request changes the child list the reorder works on: a
   reorder of it, a new child under it, or the deletion of one of its
   children *)
SameChildList ==
    \/ /\ last.op \in {"project_new_node", "project_reorder_components"}
       /\ last.args.node = inflight[1].node
    \/ /\ last.op = "component_remove"
       /\ last.args.node \in SeqRange(last.pre.Node[inflight[1].node].nodes)

(* C11: a reorder that overlaps another request on the same child list
   leaves the store that one of the two serial orders of the two requests
   leaves (no request of the views ends with a conflict). *)
C11_NoLostUpdate ==
    RaceDone /\ SameChildList =>
        LET A == inflight[1]
            a_first == Serial(last.pre, "project_reorder_components", A.auth,
                              [node |-> A.node, new_list |-> A.new_list]).db
            b_first == Serial(last.pre, last.op, last.auth, last.args).db
        IN  \/ Store = Serial(a_first, last.op, last.auth, last.args).db
            \/ Store = Serial(b_first, "project_reorder_components", A.auth,
                              [node |-> A.node, new_list |-> A.new_list]).db

(* ----------------------------- C12 ------------------------------------ *)
MutatingOps ==
    {"project_new_node", "project_reorder_components", "component_remove",
     "update_node", "add_pointers", "add_pointer", "remove_pointer",
     "fork_pointer", "project_set_privacy"}

(* the level the contract asks of the actor *)
RequiredLevel(op) ==
    IF op \in {"component_remove", "project_set_privacy"} THEN ADMIN ELSE WRITE

BelowLevel ==
    /\ last # NoLast
    /\ last.op \in MutatingOps
    /\ ~last.pre.Node[last.args.node].is_deleted
    /\ effective_permission(last.pre.Node, last.auth, last.args.node)
          < RequiredLevel(last.op)

(* C12: a mutating request on a node by an actor whose effective permission
   on that node is below the required level (write; admin for deletion and
   privacy) is refused and leaves the store as it found it.  The refusal is
   read widely, as any answer that is not a success, so that a violation is
   a change of the store and not a different error code *)
C12_BelowLevelDenied ==
    BelowLevel => (last.status \notin {"OK", "CREATED"} /\ Store = last.pre)

(* ----------------------------- C13 ------------------------------------ *)
(* C13: whatever request is made, every node that was a registration before
   it keeps its child list, its set of active pointers and its contributor
   mapping *)
C13_RegistrationImmutable ==
    last # NoLast =>
        \A n \in 1..Len(last.pre.Node) :
            last.pre.Node[n].is_registration =>
                /\ Node[n].nodes = last.pre.Node[n].nodes
                /\ PointerTargets(Pointer, n) = PointerTargets(last.pre.Pointer, n)
                /\ Node[n].contributors = last.pre.Node[n].contributors

(* ----------------------------- C14 ------------------------------------ *)
PrivacyRequest == Observed("project_set_privacy") /\ ~last.pre.Node[last.args.node].is_deleted

PrivacyActorLevel == effective_permission(last.pre.Node, last.auth, last.args.node)

PrivacyBlocked ==
    last.pre.Node[last.args.node].archiving \/ last.pre.Node[last.args.node].is_retracted

(* C14: a request to make a node public is answered with a permission
   failure when the actor is no admin of the node, and with the failure of a
   node state error (400) when the actor is admin and the node is archiving
   or retracted; the node's is_public is the same afterwards in both cases *)
C14_SetPrivacyRefused ==
    (PrivacyRequest /\ last.args.permissions = "public") =>
        /\ PrivacyActorLevel < ADMIN =>
               /\ last.status = "FORBIDDEN"
               /\ Node[last.args.node].is_public = last.pre.Node[last.args.node].is_public
        /\ (PrivacyActorLevel >= ADMIN /\ PrivacyBlocked) =>
               /\ last.status = "BAD_REQUEST"
               /\ Node[last.args.node].is_public = last.pre.Node[last.args.node].is_public

(* an admin asked for a private archiving or retracted node to be public *)
C14_Witness ==
    /\ PrivacyRequest /\ last.args.permissions = "public"
    /\ PrivacyActorLevel >= ADMIN /\ PrivacyBlocked
    /\ ~last.pre.Node[last.args.node].is_public
    /\ last.status = "BAD_REQUEST"

(* ----------------------------- C15 ------------------------------------ *)
(* C15: a privacy request changes nothing but the is_public flag of the node
   it names: every other node, parents and children included, and every
   other field of the node are as before; when it succeeds the flag is the
   requested one *)
C15_PrivacyPerNode ==
    Observed("project_set_privacy") =>
        /\ Len(Node) = Len(last.pre.Node)
        /\ Pointer = last.pre.Pointer
        /\ \A m \in NodeKeys : m # last.args.node => Node[m] = last.pre.Node[m]
        /\ [Node[last.args.node] EXCEPT !.is_public = FALSE]
              = [last.pre.Node[last.args.node] EXCEPT !.is_public = FALSE]
        /\ last.status = "OK" =>
               Node[last.args.node].is_public = (last.args.permissions = "public")

(* a private node with a private child was made public *)
C15_Witness ==
    /\ Observed("project_set_privacy") /\ last.status = "OK"
    /\ ~last.pre.Node[last.args.node].is_public
    /\ Node[last.args.node].is_public
    /\ \E c \in NodeKeys : Node[c].parent_node = last.args.node /\ ~Node[c].is_public

(* ----------------------------- C16 ------------------------------------ *)
(* n and the nodes reached from it through children that are not deleted *)
RECURSIVE ActiveTree(_, _)
ActiveTree(N, n) ==
    {n} \cup UNION {ActiveTree(N, c) : c \in SeqRange(active_children(N, n))}

NoActiveChildOfDeleted(N) ==
    \A m \in 1..Len(N) : N[m].is_deleted => active_children(N, m) = <<>>

(* the nodes the observed deletion had to mark *)
Removed == ActiveTree(last.pre.Node, last.args.node)

(* C16: a successful deletion marks the node and each of its active
   descendants once, the children before their parent: no collection it
   saves on the way has a deleted node with an active child.  Afterwards no
   enumeration of active children, of any node and for any user, lists one
   of them, and each of them still loads by its key *)
C16_RemovePostOrder ==
    (Observed("component_remove") /\ last.status = "OK") =>
        /\ Len(last.out.saves) = Cardinality(Removed)
        /\ \A i \in 1..Len(last.out.saves) : NoActiveChildOfDeleted(last.out.saves[i])
        /\ last.out.saves[Len(last.out.saves)] = Node
        /\ \A k \in Removed : Load(Node, k) # None /\ Node[k].is_deleted
        /\ \A u \in Users, m \in NodeKeys, perm \in {None} \cup Levels :
               SeqRange(get_children(Store, u, m, perm).nodes) \cap Removed = {}

(* a node with an active child and an active grandchild was deleted *)
C16_Witness ==
    /\ Observed("component_remove") /\ last.status = "OK"
    /\ \E c \in Removed, g \in Removed :
           /\ last.pre.Node[c].parent_node = last.args.node
           /\ last.pre.Node[g].parent_node = c

(* ----------------------------- C17 ------------------------------------ *)
(* the observed deletion, by an admin of a node that is not deleted, meets a
   registration: the node itself or one of its active descendants *)
RemoveMeetsRegistration ==
    /\ Observed("component_remove")
    /\ ~last.pre.Node[last.args.node].is_deleted
    /\ has_permission(last.pre.Node, last.auth, last.args.node, ADMIN)
    /\ \E k \in Removed : last.pre.Node[k].is_registration

(* C17: a deletion that meets a registration, the node itself or an active
   descendant, fails with the answer of a node state error (400) and the
   node itself is not marked deleted *)
C17_RemoveBlockedByRegistration ==
    RemoveMeetsRegistration =>
        /\ last.status = "BAD_REQUEST"
        /\ ~Node[last.args.node].is_deleted

(* the node is no registration, one of its descendants is *)
C17_Witness ==
    /\ RemoveMeetsRegistration
    /\ ~last.pre.Node[last.args.node].is_registration
    /\ last.status = "BAD_REQUEST"
    /\ ~Node[last.args.node].is_deleted

(* ----------------------------- C18 ------------------------------------ *)
(* the first node on the way up from n that the user may view, or None *)
RECURSIVE NearestViewable(_, _, _)
NearestViewable(N, user, n) ==
    IF N[n].parent_node = None THEN None
    ELSE IF can_view(N, user, N[n].parent_node) THEN N[n].parent_node
    ELSE NearestViewable(N, user, N[n].parent_node)

(* C18: a successful deletion answers with the nearest ancestor of the node
   that the actor may view, a higher one when the parent may not be viewed,
   and with none when there is no such ancestor *)
C18_RemoveReturnsNearestViewable ==
    (Observed("component_remove") /\ last.status = "OK") =>
        last.out.url = NearestViewable(Node, last.auth, last.args.node)

(* ----------------------------- C19 ------------------------------------ *)
(* the roots of a link's target set: the targets that have no other target
   above them in the tree *)
LinkRoots(N, link) ==
    {t \in SeqRange(link.nodes) :
        \A o \in SeqRange(link.nodes) : o \notin Ancestors(N, t)}

AdminOfRoot(N, user, link) ==
    \E t \in LinkRoots(N, link) : has_permission(N, user, t, ADMIN)

(* C19: a link is created or renamed only by an admin of the root of its
   target set.  A rename that succeeds was asked by an admin of a root of the
   link it names, and a creation that succeeds leaves a link on whose every
   target the creator holds admin, on the node or through its ancestors *)
C19_LinkOnlyByRootAdmin ==
    /\ (Observed("project_private_link_edit") /\ last.status = "OK") =>
           AdminOfRoot(Node, last.auth, last.links[last.args.pk])
    /\ (Observed("project_generate_private_link_post") /\ last.status = "OK") =>
           \A t \in SeqRange(PrivateLink[Len(PrivateLink)].nodes) :
               has_permission(Node, last.auth, t, ADMIN)

(* ----------------------------- C20 ------------------------------------ *)
ForkRequest == Observed("node_fork_page") /\ ~last.pre.Node[last.args.node].is_deleted

ForkActorLevel == effective_permission(last.pre.Node, last.auth, last.args.node)

(* the nodes the observed request created *)
CreatedKeys == (Len(last.pre.Node) + 1)..Len(Node)

SoleAdmin(user) == [u \in Users |-> IF u = user THEN ADMIN ELSE NoPermission]

(* C20: a fork asked by an actor whose effective permission on the node is
   exactly read succeeds, and the fork, its root and every node under it,
   has the actor as admin and nobody else as contributor, whoever the
   contributors of the source were; asked by an actor without read access
   it is answered with a permission failure and no node is created *)
C20_ForkByReader ==
    ForkRequest =>
        /\ ForkActorLevel = READ =>
               /\ last.status = "OK"
               /\ CreatedKeys # {}
               /\ Node[Len(last.pre.Node) + 1].is_fork
               /\ \A k \in CreatedKeys : Node[k].contributors = SoleAdmin(last.auth)
        /\ ForkActorLevel = NoPermission =>
               /\ last.status = "FORBIDDEN"
               /\ Store = last.pre

(* the actor reads the node only because it is public, the node has an
   admin of its own and a child, and the fork was made *)
C20_Witness ==
    /\ ForkRequest /\ ForkActorLevel = READ /\ last.status = "OK"
    /\ last.pre.Node[last.args.node].contributors[last.auth] = NoPermission
    /\ \E u \in Users : last.pre.Node[last.args.node].contributors[u] = ADMIN
    /\ active_children(last.pre.Node, last.args.node) # <<>>
    /\ Cardinality(CreatedKeys) >= 2

(* ----------------------------- C21 ------------------------------------ *)
(* n and its active descendants, a node before its children and the
   children in their stored order *)
RECURSIVE PreOrder(_, _), PreOrderAll(_, _)
PreOrder(N, n) == <<n>> \o PreOrderAll(N, active_children(N, n))

PreOrderAll(N, cs) ==
    IF cs = <<>> THEN <<>> ELSE PreOrder(N, Head(cs)) \o PreOrderAll(N, Tail(cs))

ForkDone == Observed("node_fork_page") /\ last.status = "OK"

(* the source subtree of the observed fork, and the copy of each of its
   nodes: the copies are made in the order above and take the next keys *)
SourceOrder == PreOrder(last.pre.Node, last.args.node)

SourceTree == SeqRange(SourceOrder)

CopyOf(k) ==
    Len(last.pre.Node) + (CHOOSE i \in 1..Len(SourceOrder) : SourceOrder[i] = k)

(* C21: after a fork, an active pointer of a node h of the source subtree at
   a node t outside the subtree has no counterpart on the copy of h; one at
   a node t inside the subtree has become an active pointer from the copy of
   h at the copy of t, and the copy of h does not point at t itself.  The
   nodes of the fork point at nodes of the fork only *)
C21_ForkRemapsPointers ==
    ForkDone =>
        /\ \A h \in SourceTree : \A t \in PointerTargets(last.pre.Pointer, h) :
               /\ t \notin PointerTargets(Pointer, CopyOf(h))
               /\ t \in SourceTree => CopyOf(t) \in PointerTargets(Pointer, CopyOf(h))
        /\ \A k \in CreatedKeys : PointerTargets(Pointer, k) \subseteq CreatedKeys
        /\ \A h \in SourceTree :
               PointerTargets(Pointer, CopyOf(h))
                 = {CopyOf(t) : t \in PointerTargets(last.pre.Pointer, h) \cap SourceTree}

(* the forked subtree held a pointer at one of its own nodes *)
C21_Witness ==
    /\ ForkDone
    /\ \E h \in SourceTree : \E t \in PointerTargets(last.pre.Pointer, h) :
           t \in SourceTree /\ CopyOf(t) \in PointerTargets(Pointer, CopyOf(h))

(* ----------------------------- C22 ------------------------------------ *)
CopiesOf(s) == [i \in 1..Len(s) |-> CopyOf(s[i])]

(* C22: the nodes a fork creates are, one for one, the copies of the source
   node and of its active descendants; the child list of each copy is the
   list of the copies of its source's active children in the same order,
   each copy but the first has the copy of its source's parent as parent,
   and a deleted source descendant, and whatever is below it, has no copy *)
C22_ForkPreservesShape ==
    ForkDone =>
        /\ Cardinality(CreatedKeys) = Len(SourceOrder)
        /\ \A k \in SourceTree :
               /\ CopyOf(k) \in CreatedKeys
               /\ ~Node[CopyOf(k)].is_deleted
               /\ Node[CopyOf(k)].nodes = CopiesOf(active_children(last.pre.Node, k))
               /\ Node[CopyOf(k)].parent_node =
                     IF k = last.args.node THEN None
                     ELSE CopyOf(last.pre.Node[k].parent_node)
        /\ \A k \in SourceTree, j \in SourceTree : CopyOf(k) = CopyOf(j) => k = j
        /\ \A d \in 1..Len(last.pre.Node) :
               (last.pre.Node[d].is_deleted /\ last.args.node \in Ancestors(last.pre.Node, d))
                   => d \notin SourceTree

(* the forked node had a deleted child and an active one *)
C22_Witness ==
    /\ ForkDone
    /\ deleted_children(last.pre.Node, last.args.node) # <<>>
    /\ active_children(last.pre.Node, last.args.node) # <<>>
    /\ Len(Node[Len(last.pre.Node) + 1].nodes) = 1

(* ----------------------------- C23 ------------------------------------ *)
(* C23: every node a fork creates is marked as a fork and is private,
   whether the node it copies was public or private *)
C23_ForkIsPrivateFork ==
    ForkDone => \A k \in CreatedKeys : Node[k].is_fork /\ ~Node[k].is_public

(* a public node with a child was forked, by a user who reads it only
   because it is public or by a contributor *)
C23_Witness ==
    /\ ForkDone
    /\ last.pre.Node[last.args.node].is_public
    /\ \E c \in SourceTree : c # last.args.node /\ last.pre.Node[c].is_public
    /\ Cardinality(CreatedKeys) >= 2

(* ----------------------------- C24 ------------------------------------ *)
ForkingRequest == Observed("node_fork_page") \/ Observed("fork_pointer")

(* C24: while the storage-conservation mode is on, a request that forks a
   node, the node of the URL or the target of a pointer, is refused for
   every actor and every node: no node is created and no node is changed.
   The refusal is read widely, as any answer that is not a success, so that
   a violation is a fork that was made and not a different error code *)
C24_NoForkInDiskSavingMode ==
    (DISK_SAVING_MODE /\ ForkingRequest) =>
        (last.status # "OK" /\ Node = last.pre.Node)


(* ----------------------------- C25 ------------------------------------ *)
TemplateDone ==
    /\ \/ Observed("project_new_from_template")
       \/ Observed("project_new_post") /\ last.args.template # None
    /\ last.status = "CREATED"

TemplateRoot ==
    IF Observed("project_new_post") THEN last.args.template ELSE last.args.node

(* the template and its active descendants, and the node made from each:
   the new nodes are made in this order and take the next keys *)
TemplateOrder == PreOrder(last.pre.Node, TemplateRoot)

TemplateTree == SeqRange(TemplateOrder)

TemplatedFrom(k) ==
    Len(last.pre.Node) + (CHOOSE i \in 1..Len(TemplateOrder) : TemplateOrder[i] = k)

TemplatesOf(s) == [i \in 1..Len(s) |-> TemplatedFrom(s[i])]

(* C25: every node made from a template, the root and each descendant, has
   the actor as admin and nobody else as contributor, whoever contributed to
   the source; it holds no pointer, and no pointer record is made at all;
   the new nodes are, one for one, the template and its active descendants,
   with the same child order, and a deleted child has no counterpart *)
C25_TemplateIsBare ==
    TemplateDone =>
        /\ \A k \in CreatedKeys :
               /\ Node[k].contributors = SoleAdmin(last.auth)
               /\ PointerTargets(Pointer, k) = {}
        /\ Pointer = last.pre.Pointer
        /\ Cardinality(CreatedKeys) = Len(TemplateOrder)
        /\ \A k \in TemplateTree :
               /\ TemplatedFrom(k) \in CreatedKeys
               /\ ~Node[TemplatedFrom(k)].is_deleted
               /\ Node[TemplatedFrom(k)].nodes
                     = TemplatesOf(active_children(last.pre.Node, k))
               /\ Node[TemplatedFrom(k)].parent_node =
                     IF k = TemplateRoot THEN None
                     ELSE TemplatedFrom(last.pre.Node[k].parent_node)
        /\ \A d \in 1..Len(last.pre.Node) :
               (last.pre.Node[d].is_deleted /\ TemplateRoot \in Ancestors(last.pre.Node, d))
                   => d \notin TemplateTree

(* the template was used by a reader who did not create it; it had a child
   and one of its nodes held a pointer *)
C25_Witness ==
    /\ TemplateDone
    /\ last.auth # last.pre.Node[TemplateRoot].creator
    /\ last.pre.Node[TemplateRoot].contributors[last.auth] = READ
    /\ \E h \in TemplateTree : PointerTargets(last.pre.Pointer, h) # {}
    /\ Cardinality(CreatedKeys) >= 2


(* ----------------------------- C26 ------------------------------------ *)
(* the fields a template request overrides: the title and the category of a
   new-project body, and its description when it has one; none when the
   template is used as it is *)
Overrides ==
    IF Observed("project_new_post")
    THEN [title |-> strip(strip_html(last.args.title)),
          category |-> last.args.category,
          description |-> strip_html(last.args.description)]
    ELSE [title |-> last.pre.Node[TemplateRoot].title,
          category |-> last.pre.Node[TemplateRoot].category,
          description |-> ""]

(* C26: the fields named by a template request are set on the node made
   from the template itself, which keeps the title and the category of the
   template when none is named; every node made from a descendant of the
   template has the title and the category of that descendant, whatever the
   request named, and no description *)
C26_OverridesOnRootOnly ==
    TemplateDone =>
        /\ Node[TemplatedFrom(TemplateRoot)].title = Overrides.title
        /\ Node[TemplatedFrom(TemplateRoot)].category = Overrides.category
        /\ Node[TemplatedFrom(TemplateRoot)].description = Overrides.description
        /\ \A k \in TemplateTree \ {TemplateRoot} :
               /\ Node[TemplatedFrom(k)].title = last.pre.Node[k].title
               /\ Node[TemplatedFrom(k)].category = last.pre.Node[k].category
               /\ Node[TemplatedFrom(k)].description = ""

(* a project was made from a template with a title, a category and a
   description of its own, all different from those of the template and of
   a child of the template *)
C26_Witness ==
    /\ TemplateDone
    /\ Observed("project_new_post")
    /\ Overrides.description # ""
    /\ Overrides.title # last.pre.Node[TemplateRoot].title
    /\ Overrides.category # last.pre.Node[TemplateRoot].category
    /\ \E k \in TemplateTree \ {TemplateRoot} :
           /\ last.pre.Node[k].title # Overrides.title
           /\ last.pre.Node[k].category # Overrides.category
           /\ last.pre.Node[k].title # last.pre.Node[TemplateRoot].title


(* ----------------------------- C27 ------------------------------------ *)
(* the observed update passed the checks made before the fields are read *)
UpdateRan ==
    /\ Observed("update_node")
    /\ must_be_valid_project(last.pre, last.args.node)
    /\ must_not_be_registration(last.pre, last.args.node)
    /\ must_have_permission(last.pre, last.auth, last.args.node, WRITE)

UpdateBody == r_strip_html(last.args.json)

BodyKeys == {UpdateBody[i].key : i \in 1..Len(UpdateBody)}

(* the whitelisted fields whose value the observed request changed *)
ChangedFields ==
    {f \in WRITABLE_WHITELIST :
        GetField(Node[last.args.node], f) # GetField(last.pre.Node[last.args.node], f)}

(* the node of the request but for its whitelisted fields *)
Unlisted(rec) == [rec EXCEPT !.title = "", !.category = "", !.description = ""]

(* C27: an update changes nothing but the title, the category and the
   description of its node.  When the body names a field outside the
   whitelist, the request fails, the failure names a field of the body, a
   field outside the whitelist when the body's title is valid, and no field
   at all is changed, the whitelisted fields of the same body included.
   When the request succeeds, the fields it returns are exactly the
   whitelisted fields whose value changed, and each of them has the value of
   the body *)
C27_UpdateWhitelist ==
    UpdateRan =>
        /\ Pointer = last.pre.Pointer
        /\ Len(Node) = Len(last.pre.Node)
        /\ \A k \in 1..Len(Node) : k # last.args.node => Node[k] = last.pre.Node[k]
        /\ Unlisted(Node[last.args.node]) = Unlisted(last.pre.Node[last.args.node])
        /\ (BodyKeys \ WRITABLE_WHITELIST # {}) =>
               /\ last.status = "BAD_REQUEST"
               /\ last.out.key \in BodyKeys
               /\ (\A i \in 1..Len(UpdateBody) :
                      UpdateBody[i].key = "title" => validate_title(UpdateBody[i].value))
                     => last.out.key \notin WRITABLE_WHITELIST
               /\ Node = last.pre.Node
        /\ last.status = "OK" =>
               /\ last.out.updated_fields = ChangedFields
               /\ \A i \in 1..Len(UpdateBody) :
                      GetField(Node[last.args.node], UpdateBody[i].key) = UpdateBody[i].value
        /\ last.status # "OK" => Node = last.pre.Node

(* a body named a whitelisted field with a new value and then a field
   outside the whitelist, and the request was refused *)
C27_Witness ==
    /\ UpdateRan
    /\ Len(UpdateBody) = 2
    /\ UpdateBody[1].key \in WRITABLE_WHITELIST
    /\ UpdateBody[1].value # GetField(last.pre.Node[last.args.node], UpdateBody[1].key)
    /\ UpdateBody[1].key = "title" => validate_title(UpdateBody[1].value)
    /\ UpdateBody[2].key \notin WRITABLE_WHITELIST
    /\ last.status = "BAD_REQUEST"
    /\ last.out.key = UpdateBody[2].key


(* ----------------------------- C28 ------------------------------------ *)
(* the observed creation passed the checks made before the form is read *)
CreateRan ==
    /\ Observed("project_new_node")
    /\ must_be_valid_project(last.pre, last.args.node)
    /\ must_have_permission(last.pre, last.auth, last.args.node, WRITE)
    /\ must_not_be_registration(last.pre, last.args.node)

(* the title of the form, without its markup, is empty after trimming or
   over-long *)
InvalidTitle == LET t == strip_html(last.args.form.title)
                IN  strip(t) = "" \/ t = LongTitle

(* C28: a component created under a parent is the last entry of the
   parent's child list, and the entries before it are the list as it was;
   its parent is that node, and it is private whether the parent is public
   or private; no other node changes.  With a title that is empty after
   trimming or over-long the request is refused, no node is created and the
   child list of the parent is as it was *)
C28_CreateUnderParent ==
    CreateRan =>
        IF InvalidTitle
        THEN /\ last.status = "BAD_REQUEST"
             /\ Node = last.pre.Node
             /\ Pointer = last.pre.Pointer
        ELSE /\ last.status = "CREATED"
             /\ Len(Node) = Len(last.pre.Node) + 1
             /\ Node[last.args.node].nodes
                   = Append(last.pre.Node[last.args.node].nodes, Len(Node))
             /\ Node[Len(Node)].parent_node = last.args.node
             /\ ~Node[Len(Node)].is_public
             /\ ~Node[Len(Node)].is_deleted
             /\ Node[Len(Node)].nodes = <<>>
             /\ \A k \in 1..Len(last.pre.Node) :
                    Node[k] = [last.pre.Node[k] EXCEPT !.nodes = Node[k].nodes]
             /\ \A k \in 1..Len(last.pre.Node) :
                    k # last.args.node => Node[k].nodes = last.pre.Node[k].nodes

(* a component was added to a public node that had two children *)
C28_Witness ==
    /\ CreateRan
    /\ last.status = "CREATED"
    /\ last.pre.Node[last.args.node].is_public
    /\ Len(last.pre.Node[last.args.node].nodes) = 2
    /\ Len(Node[last.args.node].nodes) = 3


(* ----------------------------- C29 ------------------------------------ *)
(* the node reached from n by following parent d times, None when the chain
   has ended before *)
RECURSIVE ParentAt(_, _, _)
ParentAt(N, n, d) ==
    IF n = None \/ d = 0 THEN n ELSE ParentAt(N, N[n].parent_node, d - 1)

(* C29: in every state that creations, forks, templates, reorderings and
   deletions lead to, the parent of a node is an existing node or none, no
   node is among its own ancestors, and the chain of parents of a node ends
   after fewer steps than there are nodes *)
C29_ParentChainAcyclic ==
    \A n \in NodeKeys :
        /\ Node[n].parent_node \in NodeKeys \cup {None}
        /\ n \notin Ancestors(Node, n)
        /\ ParentAt(Node, n, Len(Node)) = None

(* a node two levels down was created, the tree forked and a node deleted:
   a fork holds a node with two ancestors *)
C29_Witness ==
    /\ \E n \in NodeKeys :
           /\ Node[n].is_fork
           /\ Cardinality(Ancestors(Node, n)) = 2
    /\ \E d \in NodeKeys : Node[d].is_deleted
    /\ budget = 0


(* ----------------------------- C30 ------------------------------------ *)
(* the nodes of the source when the fork began, the copies the fork made
   and the source nodes that have one *)
RaceSource == ActiveTree(last.pre.Node, last.args.node)

RaceMap == last.out.map

Copied == MapDomain(RaceMap)

ForkKeys == {p[2] : p \in RaceMap}

(* the children of a source node that have a copy, in the order of the
   source *)
CopiedChildren(s) == SelectSeq(last.pre.Node[s].nodes, LAMBDA c : c \in Copied)

(* a deletion ran between the first and the last step of the fork *)
DeletedMeanwhile ==
    {s \in RaceSource : Node[s].is_deleted /\ ~last.pre.Node[s].is_deleted}

(* C30: when deletions of source descendants run while a fork is made, each
   node of the source either has one copy in the fork or has none and none
   of the nodes below it has one; a node without a copy is deleted or below
   a deleted node.  The fork is a tree: the nodes made are the copies and
   nothing else, each is active, a fork, and carries the fields of its
   source; the child list of a copy names the copies of its source's
   copied children in order, every key in it is a node of the fork whose
   parent is that copy, and every copy but the first has the copy of its
   source's parent as parent *)
C30_ForkBesideDeletion ==
    (ForkDone /\ "map" \in DOMAIN last.out) =>
        /\ last.args.node \in Copied
        /\ Copied \subseteq RaceSource
        /\ \A p \in RaceMap, q \in RaceMap : (p[1] = q[1]) = (p[2] = q[2])
        /\ ForkKeys = CreatedKeys
        /\ \A s \in RaceSource \ {last.args.node} :
               /\ s \in Copied => last.pre.Node[s].parent_node \in Copied
               /\ s \notin Copied =>
                     \E a \in {s} \cup (Ancestors(last.pre.Node, s) \cap RaceSource) :
                         Node[a].is_deleted
        /\ \A s \in Copied :
               LET k == Mapped(RaceMap, s)
               IN  /\ ~Node[k].is_deleted
                   /\ Node[k].is_fork
                   /\ Node[k].title = last.pre.Node[s].title
                   /\ Node[k].nodes = [i \in 1..Len(CopiedChildren(s)) |->
                                         Mapped(RaceMap, CopiedChildren(s)[i])]
                   /\ \A c \in SeqRange(Node[k].nodes) :
                          c \in ForkKeys /\ Node[c].parent_node = k
                   /\ Node[k].parent_node =
                         IF s = last.args.node THEN None
                         ELSE Mapped(RaceMap, last.pre.Node[s].parent_node)

(* while the fork ran, a node of the source that had a child was deleted
   before the fork reached it *)
C30_Witness ==
    /\ ForkDone /\ "map" \in DOMAIN last.out
    /\ \E s \in DeletedMeanwhile :
           /\ s \notin Copied
           /\ active_children(last.pre.Node, s) # <<>>


(* ----------------------------- C31 ------------------------------------ *)
(* how many entries of the child lists of N name c *)
Occurrences(N, c) ==
    Cardinality({x \in (1..Len(N)) \X (1..Len(N)) :
                    x[2] <= Len(N[x[1]].nodes) /\ N[x[1]].nodes[x[2]] = c})

(* C31: in every state, a node c is in the stored child list of p exactly
   when the parent of c is p; every node is named by at most one entry of
   all the child lists, and a node without a parent by none *)
C31_TreeLinksConsistent ==
    \A c \in NodeKeys :
        /\ \A p \in NodeKeys :
               (c \in SeqRange(Node[p].nodes)) <=> (Node[c].parent_node = p)
        /\ Occurrences(Node, c) <= 1
        /\ Node[c].parent_node = None => Occurrences(Node, c) = 0


(* ----------------------------- C32 ------------------------------------ *)
ComponentMade == Observed("project_new_node") /\ last.status = "CREATED"

Contributors(rec) == {u \in Users : rec.contributors[u] # NoPermission}

(* C32 as stated: a component created with the inherit-contributors option
   has the contributors of its parent and no others; each of them but the actor has
   on the component the level they have on the parent, and the actor has
   the creator's level, admin, also when they have only write on the
   parent.  Without the option the actor is the only contributor, as
   admin *)
C32_InheritContributors ==
    ComponentMade =>
        LET parent == last.pre.Node[last.args.node]
            made == Node[Len(Node)]
        IN  IF last.args.inherit
            THEN /\ Contributors(made) = Contributors(parent)
                 /\ \A u \in Contributors(parent) \ {last.auth} :
                        made.contributors[u] = parent.contributors[u]
                 /\ made.contributors[last.auth] = CREATOR_PERMISSIONS
            ELSE made.contributors = SoleAdmin(last.auth)


(* C32: a component created with the inherit-contributors option has as
   contributors those of its parent and the actor, who need not be one of
   them when the right to write comes from an ancestor; each contributor of
   the parent but the actor has on the component the level they have on the
   parent, and the actor has the creator's level, admin, also when they
   have only write on the parent.  Without the option the actor is the only
   contributor, as admin *)
C32_InheritWithCreator ==
    ComponentMade =>
        LET parent == last.pre.Node[last.args.node]
            made == Node[Len(Node)]
        IN  IF last.args.inherit
            THEN /\ Contributors(made) = Contributors(parent) \cup {last.auth}
                 /\ \A u \in Contributors(parent) \ {last.auth} :
                        made.contributors[u] = parent.contributors[u]
                 /\ made.contributors[last.auth] = CREATOR_PERMISSIONS
            ELSE made.contributors = SoleAdmin(last.auth)

(* with the option, a component was made by an actor who has only write on
   the parent, and got the parent's other contributor at the level held on
   the parent *)
C32_Witness ==
    /\ ComponentMade
    /\ last.args.inherit
    /\ last.pre.Node[last.args.node].contributors[last.auth] = WRITE
    /\ Node[Len(Node)].contributors[last.auth] = ADMIN
    /\ \E u \in Users \ {last.auth} :
           /\ last.pre.Node[last.args.node].contributors[u] # NoPermission
           /\ Node[Len(Node)].contributors[u]
                 = last.pre.Node[last.args.node].contributors[u]


(* ----------------------------- C33 ------------------------------------ *)
(* the observed request forks a node or uses one as a template *)
CopyRequest ==
    \/ Observed("node_fork_page")
    \/ Observed("project_new_from_template")
    \/ Observed("project_new_post") /\ last.args.template # None

CopySource ==
    IF Observed("project_new_post") THEN last.args.template ELSE last.args.node

(* the node copied and everything below it, deleted nodes too *)
SourceSubtree ==
    {CopySource} \cup {k \in 1..Len(last.pre.Node) :
                          CopySource \in Ancestors(last.pre.Node, k)}

(* C33: after a fork or a use as template, made or refused, every node of
   the source subtree has the title, the public flag, the deleted flag, the
   parent, the child list, the contributors and the active pointers it had
   before; no node made by the request is in the child list of a node of the
   source or has one as parent, and none has a node of the source as child
   or is its parent *)
C33_CopyLeavesSource ==
    CopyRequest =>
        /\ Len(Node) >= Len(last.pre.Node)
        /\ \A s \in SourceSubtree :
               /\ Node[s].title = last.pre.Node[s].title
               /\ Node[s].is_public = last.pre.Node[s].is_public
               /\ Node[s].is_deleted = last.pre.Node[s].is_deleted
               /\ Node[s].parent_node = last.pre.Node[s].parent_node
               /\ Node[s].nodes = last.pre.Node[s].nodes
               /\ Node[s].contributors = last.pre.Node[s].contributors
               /\ PointerTargets(Pointer, s) = PointerTargets(last.pre.Pointer, s)
        /\ \A k \in CreatedKeys, s \in SourceSubtree :
               /\ k \notin SeqRange(Node[s].nodes)
               /\ s \notin SeqRange(Node[k].nodes)
               /\ Node[k].parent_node # s
               /\ Node[s].parent_node # k
        /\ last.status \notin {"OK", "CREATED"} => Store = last.pre

(* a reader forked a node that had a child, a deleted child or a pointer of
   its own, and the fork has at least two nodes *)
C33_Witness ==
    /\ Observed("node_fork_page")
    /\ last.status = "OK"
    /\ last.auth # last.pre.Node[CopySource].creator
    /\ Cardinality(CreatedKeys) >= 2
    /\ \/ PointerTargets(last.pre.Pointer, CopySource) # {}
       \/ \E s \in SourceSubtree : last.pre.Node[s].is_deleted

====
